---- MODULE Spec2Model ----
(***************************************************************************)
(* Model of the UCP resource control plane: the routing validator          *)
(* (pkg/ucp/frontend/controller/resourcegroups: ValidateDownstream and its *)
(* helpers) and the asynchronous operation path (notifications filter,     *)
(* status manager, queue and async worker of the dynamic resource          *)
(* provider).                                                              *)
(***************************************************************************)
EXTENDS Integers, Sequences, FiniteSets, TLC

(***************************************************************************)
(* Universe of names used by the routing part.                             *)
(***************************************************************************)
PlaneNames == {"local"}
GroupNames == {"rg1"}
Namespaces == {"Applications.Core"}
LocationNames == {"global"}
APIVersions == {"2023-10-01-preview", "2022-03-15"}

\* Resource type names as they appear in request ids.
IdTypeNames == {"containers", "CONTAINERS", "gateways"}
\* Resource type names as they appear as keys of a Location's table.
TableTypeNames == {"containers", "Containers"}
\* Address strings that can be stored on a plane or a location.
GoodAddress == "http://rp:8080"
OtherAddress == "http://other:9000"
BadAddress == ":bad"
Addresses == {GoodAddress, OtherAddress, BadAddress}

Absent == [absent |-> TRUE]
NilURL == "<nil>"
NoAddress == "<noaddress>"
NoMatch == "<nomatch>"

\* strings.ToLower over the names of the model.
ToLower(s) ==
    CASE s = "CONTAINERS" -> "containers"
      [] s = "Containers" -> "containers"
      [] s = "Applications.Core" -> "applications.core"
      [] s = "INFRA1" -> "infra1"
      [] OTHER -> s

\* strings.EqualFold
EqualFold(a, b) == ToLower(a) = ToLower(b)

\* url.Parse: fails on a string without a protocol scheme before ':'.
UrlParse(s) ==
    IF s = BadAddress
    THEN [err |-> "parse", url |-> NilURL]
    ELSE [err |-> "nil", url |-> <<"url", s>>]

(***************************************************************************)
(* Resource ids.  group = "" for an id at plane scope.                     *)
(***************************************************************************)
ResourceIDs ==
    [plane : PlaneNames, group : GroupNames \cup {""}, ns : Namespaces,
     type : IdTypeNames, name : {"c1"}]

\* resources.ID.PlaneScope
PlaneScope(id) == id.plane
\* resources.ID.RootScope
RootScope(id) == <<id.plane, id.group>>
\* resources.ID.FindScope("resourceGroups")
FindScopeResourceGroups(id) == id.group
\* resources.ID.ProviderNamespace
ProviderNamespace(id) == id.ns
\* resources.ID.Type: namespace, separator, type name
Type(id) == <<id.ns, "/", id.type>>

(***************************************************************************)
(* Stored records.                                                         *)
(***************************************************************************)
\* datamodel.RadiusPlane: the legacy resourceProviders map.
LegacyMaps ==
    { [n \in S |-> GoodAddress] : S \in SUBSET Namespaces } \cup
    { [n \in Namespaces |-> BadAddress] }
PlaneRecords == [resourceProviders : LegacyMaps]

\* datamodel.Location: optional address and the resource-type table, each
\* resource type with its set of supported API versions.
VersionSets == {{"2023-10-01-preview"}, APIVersions}
TypeTables ==
    UNION { [S -> VersionSets] : S \in SUBSET TableTypeNames }
LocationRecords ==
    [address : {OtherAddress, BadAddress, NoAddress}, resourceTypes : TypeTables]

LocationKeys == PlaneNames \X Namespaces \X LocationNames
GroupKeys == PlaneNames \X GroupNames

VARIABLES
    planes,     \* plane name -> plane record or Absent
    groups,     \* resource group key -> TRUE when the record exists
    locations,  \* location key -> location record or Absent
    response,   \* the outcome of the call made last: a request served, a notify
                \* returned, a Save or Delete attempted on the resource store
    store,      \* resource name -> stored object or Absent
    statuses,   \* operation id -> async operation status record
    queue,      \* messages waiting on the queue
    nextOp,     \* next operation id (uuid.New)
    notifier,   \* per notify call in progress: position, object read, whether
                \* the ETag read is out of date
    worker,     \* the async worker: position, claimed message, whether the ETag
                \* read at claim time is out of date
    registry,   \* (resource type, method) -> controller factory
    started,    \* the worker service has registered its controllers and runs
    kubernetesPlanes, \* Kubernetes plane name -> stored data model or Absent
    send,       \* the DeclarativeFilter.Send call in progress
    impacted,   \* the impactedResources call in progress
    service,    \* the notifications Service: position of Run and of the goroutine
                \* that runs service.Start, the filter, the context
    watcher     \* the kubernetesWatcher: its state map, the handlers registered
                \* with the informers, the last call

routingVars == <<planes, groups, locations>>
asyncVars == <<store, statuses, queue, nextOp, notifier, worker>>
registryVars == <<registry, started>>
planeVars == <<kubernetesPlanes>>
serviceVars == <<send, impacted, service, watcher>>
vars == <<planes, groups, locations, response, store, statuses, queue,
          nextOp, notifier, worker, registry, started, kubernetesPlanes,
          send, impacted, service, watcher>>

NoResponse == [op |-> "none"]
KubernetesPlaneNames == {"local", "remote"}
\* No Send call and no impactedResources call in progress.
IdleSend == [pc |-> "idle"]
IdleImpacted == [pc |-> "idle"]
\* Group, version and kind of the Kubernetes resource types of the model:
\* built-in types, custom resource definitions, and the four kinds that are
\* not watched.
GVK(group, version, kind) == [Group |-> group, Version |-> version, Kind |-> kind]
GroupVersionKinds ==
    {GVK("apps", "v1", "Deployment"),
     GVK("", "v1", "Event"),
     GVK("radapp.io", "v1alpha3", "Recipe"),
     GVK("events.k8s.io", "v1", "Event"),
     GVK("coordination.k8s.io", "v1", "Lease"),
     GVK("ucp.dev", "v1alpha1", "QueueMessage"),
     GVK("ucp.dev", "v1alpha1", "Resource")}
\* The kubernetesWatcher as Service.Run makes it: a nil state map, no handler
\* registered with any informer.
NewWatcher ==
    [state |-> <<>>, handlers |-> [gvk \in GroupVersionKinds |-> {}], registrations |-> 0,
     last |-> [op |-> "none"]]
\* The notifications Service before Run: no filter, no goroutine, the context
\* not cancelled.
NewService ==
    [run |-> "new", go |-> "none", msg |-> "", filter |-> FALSE, ctxDone |-> FALSE,
     result |-> ""]

\* store.GetResource: a keyed read; faulty models an I/O failure.
GetResource(table, key, faulty) ==
    IF faulty THEN [err |-> "error", obj |-> Absent]
    ELSE IF table[key] = Absent THEN [err |-> "ErrNotFound", obj |-> Absent]
    ELSE [err |-> "nil", obj |-> table[key]]

\* datamodel.RadiusPlane.LookupResourceProvider: "" when not configured.
LookupResourceProvider(plane, ns) ==
    IF \E k \in DOMAIN plane.resourceProviders : EqualFold(k, ns)
    THEN plane.resourceProviders[CHOOSE k \in DOMAIN plane.resourceProviders : EqualFold(k, ns)]
    ELSE ""

Result(err, url, msg, reads) == [err |-> err, url |-> url, msg |-> msg, reads |-> reads]

\* ValidateRadiusPlane
ValidateRadiusPlane(id, fault) ==
    LET got == GetResource(planes, PlaneScope(id), fault = "plane")
    IN  IF got.err = "ErrNotFound"
        THEN [err |-> "NotFoundError", msg |-> "plane not found", plane |-> Absent]
        ELSE IF got.err # "nil"
        THEN [err |-> "error", msg |-> "failed to find plane", plane |-> Absent]
        ELSE [err |-> "nil", msg |-> "", plane |-> got.obj]

\* Variant of ValidateResourceGroup that lets a missing group through.
ValidateResourceGroup_IgnoresNotFound(id, fault) ==
    IF FindScopeResourceGroups(id) = ""
    THEN [err |-> "nil", msg |-> "", read |-> FALSE]
    ELSE LET table == [k \in GroupKeys |-> IF groups[k] THEN [group |-> TRUE] ELSE Absent]
             got == GetResource(table, RootScope(id), fault = "group")
         IN  IF got.err = "ErrNotFound"
             THEN [err |-> "nil", msg |-> "", read |-> TRUE]
             ELSE IF got.err # "nil"
             THEN [err |-> "error", msg |-> "failed to find resource group", read |-> TRUE]
             ELSE [err |-> "nil", msg |-> "", read |-> TRUE]

\* ValidateResourceGroup
ValidateResourceGroup(id, fault) ==
    IF FindScopeResourceGroups(id) = ""
    THEN [err |-> "nil", msg |-> "", read |-> FALSE]
    ELSE LET table == [k \in GroupKeys |-> IF groups[k] THEN [group |-> TRUE] ELSE Absent]
             got == GetResource(table, RootScope(id), fault = "group")
         IN  IF got.err = "ErrNotFound"
             THEN [err |-> "NotFoundError", msg |-> "resource group not found", read |-> TRUE]
             ELSE IF got.err # "nil"
             THEN [err |-> "error", msg |-> "failed to find resource group", read |-> TRUE]
             ELSE [err |-> "nil", msg |-> "", read |-> TRUE]

\* datamodel.ResourceProviderIDFromResourceID followed by Append of the
\* location type segment: the key of the Location record.
LocationID(id, locationName) == <<id.plane, ProviderNamespace(id), locationName>>

\* strings.ToLower of a string held as a sequence of its parts.
LowerSeq(t) == [i \in DOMAIN t |-> ToLower(t[i])]

\* strings.TrimPrefix
TrimPrefix(t, prefix) ==
    IF Len(t) >= Len(prefix) /\ SubSeq(t, 1, Len(prefix)) = prefix
    THEN SubSeq(t, Len(prefix) + 1, Len(t))
    ELSE t

\* search := strings.TrimPrefix(strings.ToLower(id.Type()), strings.ToLower(ns) + "/")
SearchName(id) ==
    TrimPrefix(LowerSeq(Type(id)), <<ToLower(ProviderNamespace(id)), "/">>)

\* The keys of the table the range loop can stop at: strings.EqualFold(name, search).
Matches(location, search) ==
    { name \in DOMAIN location.resourceTypes : LowerSeq(<<name>>) = LowerSeq(search) }

\* Variants of ValidateResourceType with one step changed: an unsupported type
\* reported as not-found, the API-version check dropped, the address ignored.
ValidateResourceType_UnsupportedFallsBack(id, locationName, apiVersion, fault, rt) ==
    LET got == GetResource(locations, LocationID(id, locationName), fault = "location")
    IN  IF got.err = "ErrNotFound"
        THEN [err |-> "ErrNotFound", url |-> NilURL, msg |-> "not found"]
        ELSE IF got.err # "nil"
        THEN [err |-> "error", url |-> NilURL, msg |-> "failed to find location"]
        ELSE IF rt = NoMatch
        THEN [err |-> "ErrNotFound", url |-> NilURL, msg |-> "not found"]
        ELSE IF apiVersion \notin got.obj.resourceTypes[rt]
        THEN [err |-> "InvalidError", url |-> NilURL, msg |-> "api version is not supported"]
        ELSE IF got.obj.address = NoAddress
        THEN [err |-> "nil", url |-> NilURL, msg |-> ""]
        ELSE LET u == UrlParse(got.obj.address)
             IN  IF u.err # "nil"
                 THEN [err |-> "InvalidError", url |-> NilURL, msg |-> "failed to parse location address"]
                 ELSE [err |-> "nil", url |-> u.url, msg |-> ""]

ValidateResourceType_NoVersionCheck(id, locationName, apiVersion, fault, rt) ==
    LET got == GetResource(locations, LocationID(id, locationName), fault = "location")
    IN  IF got.err = "ErrNotFound"
        THEN [err |-> "ErrNotFound", url |-> NilURL, msg |-> "not found"]
        ELSE IF got.err # "nil"
        THEN [err |-> "error", url |-> NilURL, msg |-> "failed to find location"]
        ELSE IF rt = NoMatch
        THEN [err |-> "InvalidError", url |-> NilURL, msg |-> "resource type not supported by location"]
        ELSE IF FALSE
        THEN [err |-> "InvalidError", url |-> NilURL, msg |-> "api version is not supported"]
        ELSE IF got.obj.address = NoAddress
        THEN [err |-> "nil", url |-> NilURL, msg |-> ""]
        ELSE LET u == UrlParse(got.obj.address)
             IN  IF u.err # "nil"
                 THEN [err |-> "InvalidError", url |-> NilURL, msg |-> "failed to parse location address"]
                 ELSE [err |-> "nil", url |-> u.url, msg |-> ""]

ValidateResourceType_IgnoresAddress(id, locationName, apiVersion, fault, rt) ==
    LET got == GetResource(locations, LocationID(id, locationName), fault = "location")
    IN  IF got.err = "ErrNotFound"
        THEN [err |-> "ErrNotFound", url |-> NilURL, msg |-> "not found"]
        ELSE IF got.err # "nil"
        THEN [err |-> "error", url |-> NilURL, msg |-> "failed to find location"]
        ELSE IF rt = NoMatch
        THEN [err |-> "InvalidError", url |-> NilURL, msg |-> "resource type not supported by location"]
        ELSE IF apiVersion \notin got.obj.resourceTypes[rt]
        THEN [err |-> "InvalidError", url |-> NilURL, msg |-> "api version is not supported"]
        ELSE IF TRUE
        THEN [err |-> "nil", url |-> NilURL, msg |-> ""]
        ELSE LET u == UrlParse(got.obj.address)
             IN  IF u.err # "nil"
                 THEN [err |-> "InvalidError", url |-> NilURL, msg |-> "failed to parse location address"]
                 ELSE [err |-> "nil", url |-> u.url, msg |-> ""]

\* Variant of ValidateResourceType that reports any failure of the Location
\* read as not-found.
ValidateResourceType_AnyErrorIsNotFound(id, locationName, apiVersion, fault, rt) ==
    LET got == GetResource(locations, LocationID(id, locationName), fault = "location")
    IN  IF got.err # "nil"
        THEN [err |-> "ErrNotFound", url |-> NilURL, msg |-> "not found"]
        ELSE IF rt = NoMatch
        THEN [err |-> "InvalidError", url |-> NilURL, msg |-> "resource type not supported by location"]
        ELSE IF apiVersion \notin got.obj.resourceTypes[rt]
        THEN [err |-> "InvalidError", url |-> NilURL, msg |-> "api version is not supported"]
        ELSE IF got.obj.address = NoAddress
        THEN [err |-> "nil", url |-> NilURL, msg |-> ""]
        ELSE LET u == UrlParse(got.obj.address)
             IN  IF u.err # "nil"
                 THEN [err |-> "InvalidError", url |-> NilURL, msg |-> "failed to parse location address"]
                 ELSE [err |-> "nil", url |-> u.url, msg |-> ""]

\* ValidateResourceType.  rt is the key at which the range over the map
\* stops: Go iterates a map in an unspecified order, so with several keys that
\* fold to the search name any of them can be the one matched.
ValidateResourceType(id, locationName, apiVersion, fault, rt) ==
    LET got == GetResource(locations, LocationID(id, locationName), fault = "location")
    IN  IF got.err = "ErrNotFound"
        THEN [err |-> "ErrNotFound", url |-> NilURL, msg |-> "not found"]
        ELSE IF got.err # "nil"
        THEN [err |-> "error", url |-> NilURL, msg |-> "failed to find location"]
        ELSE IF rt = NoMatch
        THEN [err |-> "InvalidError", url |-> NilURL, msg |-> "resource type not supported by location"]
        ELSE IF apiVersion \notin got.obj.resourceTypes[rt]
        THEN [err |-> "InvalidError", url |-> NilURL, msg |-> "api version is not supported"]
        ELSE IF got.obj.address = NoAddress
        THEN [err |-> "nil", url |-> NilURL, msg |-> ""]
        ELSE LET u == UrlParse(got.obj.address)
             IN  IF u.err # "nil"
                 THEN [err |-> "InvalidError", url |-> NilURL, msg |-> "failed to parse location address"]
                 ELSE [err |-> "nil", url |-> u.url, msg |-> ""]

\* Variant of ValidateLegacyResourceProvider without the empty-entry check.
ValidateLegacyResourceProvider_NoEmptyCheck(id, plane) ==
    LET downstream == LookupResourceProvider(plane, ProviderNamespace(id))
    IN  IF FALSE
        THEN [err |-> "InvalidError", url |-> NilURL, msg |-> "resource provider not configured"]
        ELSE LET u == UrlParse(downstream)
             IN  IF u.err # "nil"
                 THEN [err |-> "InvalidError", url |-> NilURL, msg |-> "failed to parse downstream URL"]
                 ELSE [err |-> "nil", url |-> u.url, msg |-> ""]

\* ValidateLegacyResourceProvider
ValidateLegacyResourceProvider(id, plane) ==
    LET downstream == LookupResourceProvider(plane, ProviderNamespace(id))
    IN  IF downstream = ""
        THEN [err |-> "InvalidError", url |-> NilURL, msg |-> "resource provider not configured"]
        ELSE LET u == UrlParse(downstream)
             IN  IF u.err # "nil"
                 THEN [err |-> "InvalidError", url |-> NilURL, msg |-> "failed to parse downstream URL"]
                 ELSE [err |-> "nil", url |-> u.url, msg |-> ""]

\* The keys rt may take for a request: a matching key of the stored table, or
\* NoMatch when there is none (or no table was read).
RangeStops(id, locationName) ==
    LET loc == locations[LocationID(id, locationName)]
    IN  IF loc = Absent \/ Matches(loc, SearchName(id)) = {}
        THEN {NoMatch}
        ELSE Matches(loc, SearchName(id))

\* Variant of ValidateDownstream that validates the resource group before
\* the plane.
ValidateDownstream_GroupFirst(id, locationName, apiVersion, fault, rt) ==
    LET g == ValidateResourceGroup(id, fault)
        greads == IF g.read THEN <<"group">> ELSE <<>>
    IN  IF g.err # "nil"
        THEN Result(g.err, NilURL, g.msg, greads)
        ELSE LET p == ValidateRadiusPlane(id, fault)
                 preads == Append(greads, "plane")
             IN  IF p.err # "nil"
                 THEN Result(p.err, NilURL, p.msg, preads)
                 ELSE LET t == ValidateResourceType(id, locationName, apiVersion, fault, rt)
                          treads == Append(preads, "location")
                      IN  IF t.err = "ErrNotFound"
                          THEN LET l == ValidateLegacyResourceProvider(id, p.plane)
                               IN  Result(l.err, l.url, l.msg, Append(treads, "legacy"))
                          ELSE Result(t.err, t.url, t.msg, treads)

\* ValidateDownstream
ValidateDownstream(id, locationName, apiVersion, fault, rt) ==
    LET p == ValidateRadiusPlane(id, fault)
    IN  IF p.err # "nil"
        THEN Result(p.err, NilURL, p.msg, <<"plane">>)
        ELSE LET g == ValidateResourceGroup(id, fault)
                 greads == IF g.read THEN <<"plane", "group">> ELSE <<"plane">>
             IN  IF g.err # "nil"
                 THEN Result(g.err, NilURL, g.msg, greads)
                 ELSE LET t == ValidateResourceType(id, locationName, apiVersion, fault, rt)
                          treads == Append(greads, "location")
                      IN  IF t.err = "ErrNotFound"
                          THEN LET l == ValidateLegacyResourceProvider(id, p.plane)
                               IN  Result(l.err, l.url, l.msg, Append(treads, "legacy"))
                          ELSE Result(t.err, t.url, t.msg, treads)

Faults == {"none", "plane", "group", "location"}

(***************************************************************************)
(* The asynchronous operation path: resource store with ETags, operation   *)
(* status records, the queue, the notifications filter and the worker.     *)
(***************************************************************************)
ResourceNames == {"r1"}
Notifiers == {"n1", "n2"}
MaxOps == 2
MaxOperationRetryCount == 1
OpIds == 1 .. MaxOps

NoPS == "<no provisioningState>"
NotString == "<not a string>"

\* v1.ProvisioningState.IsTerminal
IsTerminal(ps) == ps \in {"Succeeded", "Failed", "Canceled"}

\* A resource object: the "properties" member of its JSON form.
Object(ps) == [properties |-> [kind |-> "map", provisioningState |-> ps]]

WithProvisioningState(obj, ps) ==
    [obj EXCEPT !.properties = [kind |-> "map", provisioningState |-> ps]]

\* json.Marshal followed by json.Unmarshal into a new map: a copy of the
\* object's JSON data that shares nothing with the object.
MarshalUnmarshal(resource) == resource.properties

\* DeclarativeFilter.provisioningState
provisioningState(resource) ==
    LET data == MarshalUnmarshal(resource)
        properties == IF data.kind = "absent"
                      THEN [kind |-> "map", provisioningState |-> NoPS]
                      ELSE data
    IN  IF properties.kind # "map" THEN "Succeeded"
        ELSE IF properties.provisioningState = NoPS THEN "Succeeded"
        ELSE IF properties.provisioningState = NotString THEN "Succeeded"
        ELSE properties.provisioningState

\* DeclarativeFilter.setProvisioningState: the value is the resource object as
\* the caller sees it after the call.  The assignment goes to the map built by
\* MarshalUnmarshal, which is dropped on return; the function has no result
\* and never writes to the resource it was given.
setProvisioningState(resource, ps) ==
    LET data == MarshalUnmarshal(resource)
        properties == IF data.kind = "absent"
                      THEN [kind |-> "map", provisioningState |-> NoPS]
                      ELSE data
        written == IF properties.kind = "map"
                   THEN [properties EXCEPT !.provisioningState = ps]
                   ELSE properties
    IN  resource

NoStatus == [status |-> "none"]
NoMsg == [op |-> 0, resource |-> ""]
IdleNotifier == [pc |-> "idle", id |-> "", obj |-> Absent, stale |-> FALSE, err |-> ""]
IdleWorker == [pc |-> "idle", msg |-> NoMsg, stale |-> FALSE]

(***************************************************************************)
(* ETags.  An ETag is an opaque token that every write of an object        *)
(* replaces by a fresh one, so the ETag a reader holds equals the stored   *)
(* one exactly when the object was not written since the read.  Each       *)
(* holder of an ETag (a notify call, the worker) records this as `stale`.  *)
(***************************************************************************)
\* The holders after a write of resource r by `writer` (a notifier, "worker"
\* or "frontend"): the writer's object now carries the fresh ETag, every
\* other ETag read from r is out of date.
NotifiersAfterWrite(r, writer) ==
    [n \in Notifiers |->
        IF n = writer THEN [notifier[n] EXCEPT !.stale = FALSE]
        ELSE IF notifier[n].id = r THEN [notifier[n] EXCEPT !.stale = TRUE]
        ELSE notifier[n]]

WorkerAfterWrite(r) ==
    IF worker.msg.resource = r THEN [worker EXCEPT !.stale = TRUE] ELSE worker

\* storage.Save(obj, store.WithETag(etag)): the write happens only when the
\* ETag is the stored object's current one.
Save(r, obj, stale) ==
    IF ~stale
    THEN [ok |-> TRUE, store |-> [store EXCEPT ![r] = obj]]
    ELSE [ok |-> FALSE, store |-> store]

\* storage.Save(obj) without an ETag option: unconditional write.
SaveAlways(r, obj) == [ok |-> TRUE, store |-> [store EXCEPT ![r] = obj]]

\* storage.Delete guarded by ETag.
Delete(r, stale) ==
    IF ~stale
    THEN [ok |-> TRUE, store |-> [store EXCEPT ![r] = Absent]]
    ELSE [ok |-> FALSE, store |-> store]

\* What is recorded of a Save or Delete: whether the ETag it carried was the
\* stored object's current ETag, and whether the write took effect.
SaveRecord(r, stale, ok, by) ==
    [op |-> "Save", by |-> by, id |-> r, matched |-> ~stale, ok |-> ok]

\* What is recorded of the worker's Save or Delete after the controller ran:
\* the operation and the result it was persisting as well.
WorkerRecord(m, stale, ok, result) ==
    [op |-> "Save", by |-> "worker", id |-> m.resource, matched |-> ~stale, ok |-> ok,
     opid |-> m.op, result |-> result]

\* What a notify call returns.
Returned(n, r, err) == [op |-> "notify", id |-> r, err |-> err]

\* v1.OperationType{Type: strings.ToUpper(id.Type()), Method: method}
OperationTypeOf(r) == "APPLICATIONS.TEST/EXAMPLERESOURCES"

\* statusmanager.QueueAsyncOperation: writes the status record of a new
\* operation with status Accepted and puts its message on the queue.
StatusRecord(r, method, source) ==
    [status |-> "Accepted", resource |-> r, method |-> method, source |-> source]
Message(op, r, method) ==
    [op |-> op, resource |-> r, type |-> OperationTypeOf(r), method |-> method, dequeueCount |-> 0]

QueueAsyncOperation(op, r, method, source) ==
    /\ statuses' = [statuses EXCEPT ![op] = StatusRecord(r, method, source)]
    /\ queue' = queue \cup {Message(op, r, method)}

(***************************************************************************)
(* Frontend of the dynamic resource provider: async PUT and DELETE.        *)
(***************************************************************************)
FrontendPut(r) ==
    /\ nextOp <= MaxOps
    /\ IF store[r] # Absent /\ ~IsTerminal(store[r].properties.provisioningState)
       THEN /\ response' = [op |-> "PUT", id |-> r, status |-> 409]
            /\ UNCHANGED asyncVars
       ELSE /\ store' = Save(r, Object("Accepted"), FALSE).store
            /\ notifier' = NotifiersAfterWrite(r, "frontend")
            /\ worker' = WorkerAfterWrite(r)
            /\ nextOp' = nextOp + 1
            /\ QueueAsyncOperation(nextOp, r, "PUT", "frontend")
            /\ response' = [op |-> "PUT", id |-> r, status |-> 201]
    /\ UNCHANGED <<serviceVars, planeVars, routingVars, registryVars>>

FrontendDelete(r) ==
    /\ nextOp <= MaxOps
    /\ IF store[r] = Absent
       THEN /\ response' = [op |-> "DELETE", id |-> r, status |-> 204]
            /\ UNCHANGED asyncVars
       ELSE IF ~IsTerminal(store[r].properties.provisioningState)
       THEN /\ response' = [op |-> "DELETE", id |-> r, status |-> 409]
            /\ UNCHANGED asyncVars
       ELSE /\ store' = Save(r, WithProvisioningState(store[r], "Accepted"), FALSE).store
            /\ notifier' = NotifiersAfterWrite(r, "frontend")
            /\ worker' = WorkerAfterWrite(r)
            /\ nextOp' = nextOp + 1
            /\ QueueAsyncOperation(nextOp, r, "DELETE", "frontend")
            /\ response' = [op |-> "DELETE", id |-> r, status |-> 202]
    /\ UNCHANGED <<serviceVars, planeVars, routingVars, registryVars>>

(***************************************************************************)
(* DeclarativeFilter.notify, one action per storage or queue call.         *)
(***************************************************************************)
\* storage.Get, the terminal-state check and the first setProvisioningState.
NotifyGet(n, r) ==
    /\ notifier[n].pc = "idle"
    /\ IF store[r] = Absent
       THEN /\ response' = Returned(n, r, "not found")
            /\ UNCHANGED notifier
       ELSE LET obj == store[r]
                ps == provisioningState(obj)
            IN  IF ~IsTerminal(ps)
                THEN /\ response' = Returned(n, r, "not in a terminal state")
                     /\ UNCHANGED notifier
                ELSE /\ notifier' = [notifier EXCEPT ![n] =
                            [pc |-> "save", id |-> r, obj |-> setProvisioningState(obj, "Updating"),
                             stale |-> FALSE, err |-> ""]]
                     /\ UNCHANGED response
    /\ UNCHANGED <<serviceVars, planeVars, routingVars, registryVars, store, statuses, queue, nextOp, worker>>

\* Variant of NotifySave that writes without the ETag option.
NotifySave_NoETag(n) ==
    /\ notifier[n].pc = "save"
    /\ LET r == notifier[n].id
           saved == SaveAlways(r, notifier[n].obj)
       IN  /\ response' = SaveRecord(r, notifier[n].stale, saved.ok, "notify")
           /\ store' = saved.store
           /\ notifier' = [NotifiersAfterWrite(r, n) EXCEPT ![n].pc = "queue"]
           /\ worker' = WorkerAfterWrite(r)
    /\ UNCHANGED <<serviceVars, planeVars, routingVars, registryVars, statuses, queue, nextOp>>

\* storage.Save(ctx, obj, store.WithETag(obj.ETag)) after the state was set.
NotifySave(n) ==
    /\ notifier[n].pc = "save"
    /\ LET r == notifier[n].id
           saved == Save(r, notifier[n].obj, notifier[n].stale)
       IN  /\ store' = saved.store
           /\ IF saved.ok
              THEN /\ notifier' = [NotifiersAfterWrite(r, n) EXCEPT ![n].pc = "queue"]
                   /\ worker' = WorkerAfterWrite(r)
                   /\ response' = SaveRecord(r, notifier[n].stale, TRUE, "notify")
              ELSE /\ notifier' = [notifier EXCEPT ![n] = IdleNotifier]
                   /\ response' = Returned(n, r, "etag conflict")
                   /\ UNCHANGED worker
    /\ UNCHANGED <<serviceVars, planeVars, routingVars, registryVars, statuses, queue, nextOp>>

\* uuid.New and statusManager.QueueAsyncOperation; on failure the second
\* setProvisioningState.
NotifyQueue(n) ==
    /\ notifier[n].pc = "queue"
    /\ nextOp <= MaxOps
    /\ nextOp' = nextOp + 1
    /\ \E queued \in BOOLEAN :
          IF queued
          THEN /\ QueueAsyncOperation(nextOp, notifier[n].id, "PUT", "notify")
               /\ notifier' = [notifier EXCEPT ![n] = IdleNotifier]
               /\ response' = Returned(n, notifier[n].id, "nil")
          ELSE /\ UNCHANGED <<statuses, queue, response>>
               /\ notifier' = [notifier EXCEPT ![n].pc = "savefailed",
                                               ![n].obj = setProvisioningState(notifier[n].obj, "Failed"),
                                               ![n].err = "queue error"]
    /\ UNCHANGED <<serviceVars, planeVars, routingVars, registryVars, store, worker>>

\* storage.Save after a failed enqueue; returns saveErr or the enqueue error.
NotifySaveFailed(n) ==
    /\ notifier[n].pc = "savefailed"
    /\ LET r == notifier[n].id
           saved == Save(r, notifier[n].obj, notifier[n].stale)
       IN  /\ store' = saved.store
           /\ notifier' = [(IF saved.ok THEN NotifiersAfterWrite(r, n) ELSE notifier)
                              EXCEPT ![n] = IdleNotifier]
           /\ worker' = IF saved.ok THEN WorkerAfterWrite(r) ELSE worker
           /\ response' = Returned(n, r, IF saved.ok THEN notifier[n].err ELSE "etag conflict")
    /\ UNCHANGED <<serviceVars, planeVars, routingVars, registryVars, statuses, queue, nextOp>>

(***************************************************************************)
(* Controller registry and the dynamic controller.                         *)
(***************************************************************************)
ResourceTypeAny == "*"
OperationMethodAny == "*"
OperationTypes == {"APPLICATIONS.TEST/EXAMPLERESOURCES", "APPLICATIONS.CORE/CONTAINERS"}
OperationMethods == {"PUT", "DELETE"}
RegistryKeys == (OperationTypes \X OperationMethods) \cup {<<ResourceTypeAny, OperationMethodAny>>}
NoFactory == "<unregistered>"
DynamicFactory == "dynamic.NewController"
OtherFactories == {"core.NewController"}

\* ControllerRegistry.Register
Register(reg, type, method, factory) == [reg EXCEPT ![<<type, method>>] = factory]

\* ControllerRegistry lookup: the registration for exactly (type, method)
\* first, the wildcard registration otherwise.
Dispatch(reg, type, method) ==
    IF reg[<<type, method>>] # NoFactory
    THEN reg[<<type, method>>]
    ELSE reg[<<ResourceTypeAny, OperationMethodAny>>]

\* Variant of registerControllers that registers one resource type only.
registerControllers_OneType(reg) ==
    Register(reg, "APPLICATIONS.TEST/EXAMPLERESOURCES", "PUT", DynamicFactory)

\* Service.registerControllers: a single controller for all resource types.
registerControllers(reg) ==
    Register(reg, ResourceTypeAny, OperationMethodAny, DynamicFactory)

\* Outcomes of validateResourceType and of the inner controllers.
ValidationOutcomes == {"ok", "InvalidResourceTypeError", "error"}
InnerOutcomes == {"ok", "failed", "error"}

\* Controller.processPut: the result of CreateOrUpdateResource.Run.
processPut(inner) ==
    IF inner = "error" THEN [state |-> "", code |-> "", err |-> "error", ran |-> "put"]
    ELSE IF inner = "failed" THEN [state |-> "Failed", code |-> "Internal", err |-> "nil", ran |-> "put"]
    ELSE [state |-> "Succeeded", code |-> "", err |-> "nil", ran |-> "put"]

\* Controller.processDelete: the result of DeleteResource.Run.
processDelete(inner) ==
    IF inner = "error" THEN [state |-> "", code |-> "", err |-> "error", ran |-> "delete"]
    ELSE IF inner = "failed" THEN [state |-> "Failed", code |-> "Internal", err |-> "nil", ran |-> "delete"]
    ELSE [state |-> "Succeeded", code |-> "", err |-> "nil", ran |-> "delete"]

\* Variant of Run that returns an invalid resource type like any other
\* validation error.
Run_InvalidTypeIsError(method, validation, inner) ==
    IF validation # "ok"
    THEN [state |-> "", code |-> "", err |-> "error", ran |-> "none"]
    ELSE IF method = "PUT" THEN processPut(inner)
    ELSE IF method = "DELETE" THEN processDelete(inner)
    ELSE [state |-> "Failed", code |-> "Invalid", err |-> "nil", ran |-> "none"]

\* Variant of Run whose method switch treats every method other than DELETE
\* as PUT.
Run_DefaultIsPut(method, validation, inner) ==
    IF validation = "InvalidResourceTypeError"
    THEN [state |-> "Failed", code |-> "Invalid", err |-> "nil", ran |-> "none"]
    ELSE IF validation # "ok"
    THEN [state |-> "", code |-> "", err |-> "error", ran |-> "none"]
    ELSE IF method = "DELETE" THEN processDelete(inner)
    ELSE processPut(inner)

\* Controller.Run of the dynamic resource provider.
Run(method, validation, inner) ==
    IF validation = "InvalidResourceTypeError"
    THEN [state |-> "Failed", code |-> "Invalid", err |-> "nil", ran |-> "none"]
    ELSE IF validation # "ok"
    THEN [state |-> "", code |-> "", err |-> "error", ran |-> "none"]
    ELSE IF method = "PUT" THEN processPut(inner)
    ELSE IF method = "DELETE" THEN processDelete(inner)
    ELSE [state |-> "Failed", code |-> "Invalid", err |-> "nil", ran |-> "none"]

\* Service.Run of the dynamic-rp backend: register the controllers, then
\* start the worker.
ServiceRun ==
    /\ ~started
    /\ registry' = registerControllers(registry)
    /\ started' = TRUE
    /\ UNCHANGED <<serviceVars, planeVars, routingVars, asyncVars, response>>

(***************************************************************************)
(* The async worker.                                                       *)
(***************************************************************************)
\* Claim a message: an operation whose status is already terminal is dropped;
\* a message delivered more often than the retry limit fails the operation;
\* otherwise the operation becomes Updating and the resource is read with its
\* ETag.
WorkerClaim(m) ==
    /\ started
    /\ worker.pc = "idle"
    /\ m \in queue
    /\ queue' = queue \ {m}
    /\ LET claimed == [m EXCEPT !.dequeueCount = m.dequeueCount + 1]
           r == m.resource
       IN  IF IsTerminal(statuses[m.op].status)
           THEN UNCHANGED <<worker, statuses, store, notifier, response>>
           ELSE IF claimed.dequeueCount > MaxOperationRetryCount
           THEN /\ statuses' = [statuses EXCEPT ![m.op].status = "Failed"]
                /\ IF store[r] = Absent
                   THEN UNCHANGED <<store, notifier>>
                   ELSE /\ store' = Save(r, WithProvisioningState(store[r], "Failed"), FALSE).store
                        /\ notifier' = NotifiersAfterWrite(r, "worker")
                /\ UNCHANGED <<worker, response>>
           ELSE /\ statuses' = [statuses EXCEPT ![m.op].status = "Updating"]
                /\ worker' = [pc |-> "executing", msg |-> claimed, stale |-> FALSE]
                /\ UNCHANGED <<store, notifier, response>>
    /\ UNCHANGED <<serviceVars, planeVars, routingVars, registryVars, nextOp>>

\* The outcome of executing the controller the registry gives for the
\* operation type, bounded by the operation timeout.
Execute(msg, validation, inner, interrupt) ==
    LET factory == Dispatch(registry, msg.type, msg.method)
        out == Run(msg.method, validation, inner)
    IN  IF factory = NoFactory THEN "Failed"
        ELSE IF interrupt = "timeout" THEN "Failed"
        ELSE IF interrupt = "canceled" THEN "Canceled"
        ELSE IF out.err # "nil" THEN "requeue"
        ELSE out.state

\* Variant of WorkerComplete that writes the result back as Accepted.
WorkerComplete_BackToAccepted(validation, inner, interrupt) ==
    /\ worker.pc = "executing"
    /\ worker' = IdleWorker
    /\ statuses' = [statuses EXCEPT ![worker.msg.op].status = "Accepted"]
    /\ UNCHANGED <<serviceVars, planeVars, routingVars, registryVars, response, store, queue, nextOp, notifier>>

\* Variant of WorkerComplete that drops the message on an ETag mismatch.
WorkerComplete_NoRequeue(validation, inner, interrupt) ==
    /\ worker.pc = "executing"
    /\ worker' = IdleWorker
    /\ LET m == worker.msg
           r == m.resource
           result == Execute(m, validation, inner, interrupt)
           deleting == m.method = "DELETE" /\ result = "Succeeded"
           obj == IF store[r] = Absent
                  THEN Object(result)
                  ELSE WithProvisioningState(store[r], result)
           saved == IF deleting THEN Delete(r, worker.stale) ELSE Save(r, obj, worker.stale)
       IN  IF result = "requeue"
           THEN /\ queue' = queue \cup {m}
                /\ UNCHANGED <<store, statuses, response, notifier>>
           ELSE /\ response' = WorkerRecord(m, worker.stale, saved.ok, result)
                /\ store' = saved.store
                /\ UNCHANGED queue
                /\ IF saved.ok
                   THEN /\ statuses' = [statuses EXCEPT ![m.op].status = result]
                        /\ notifier' = NotifiersAfterWrite(r, "worker")
                   ELSE UNCHANGED <<statuses, notifier>>
    /\ UNCHANGED <<serviceVars, planeVars, routingVars, registryVars, nextOp>>

\* The controller has run: persist the resource with the ETag read at claim
\* time and write the terminal status; an ETag mismatch or a controller error
\* puts the message back on the queue.
WorkerComplete(validation, inner, interrupt) ==
    /\ worker.pc = "executing"
    /\ worker' = IdleWorker
    /\ LET m == worker.msg
           r == m.resource
           result == Execute(m, validation, inner, interrupt)
           deleting == m.method = "DELETE" /\ result = "Succeeded"
           obj == IF store[r] = Absent
                  THEN Object(result)
                  ELSE WithProvisioningState(store[r], result)
           saved == IF deleting THEN Delete(r, worker.stale) ELSE Save(r, obj, worker.stale)
       IN  IF result = "requeue"
           THEN /\ queue' = queue \cup {m}
                /\ UNCHANGED <<store, statuses, response, notifier>>
           ELSE /\ response' = WorkerRecord(m, worker.stale, saved.ok, result)
                /\ store' = saved.store
                /\ IF saved.ok
                   THEN /\ statuses' = [statuses EXCEPT ![m.op].status = result]
                        /\ notifier' = NotifiersAfterWrite(r, "worker")
                        /\ UNCHANGED queue
                   ELSE /\ queue' = queue \cup {m}
                        /\ UNCHANGED <<statuses, notifier>>
    /\ UNCHANGED <<serviceVars, planeVars, routingVars, registryVars, nextOp>>

Interrupts == {"none", "timeout", "canceled"}

\* The runs of the controller that differ in their outcome: an interrupted run
\* does not depend on what the controller would have returned, and the inner
\* controller runs only after a successful validation.
ControllerRuns ==
    { run \in ValidationOutcomes \X InnerOutcomes \X Interrupts :
        /\ run[3] # "none" => (run[1] = "ok" /\ run[2] = "ok")
        /\ run[1] # "ok" => run[2] = "ok" }

\* The state after construction of the services on durable storage that
\* holds the resources `stored`: no routing metadata and no planes yet, no
\* operation queued.
Construct(stored) ==
    /\ planes = [p \in PlaneNames |-> Absent]
    /\ groups = [k \in GroupKeys |-> FALSE]
    /\ locations = [k \in LocationKeys |-> Absent]
    /\ response = NoResponse
    /\ store = stored
    /\ statuses = [o \in OpIds |-> NoStatus]
    /\ queue = {}
    /\ nextOp = 1
    /\ notifier = [n \in Notifiers |-> IdleNotifier]
    /\ worker = IdleWorker
    /\ registry = [k \in RegistryKeys |-> NoFactory]
    /\ started = FALSE
    /\ kubernetesPlanes = [name \in KubernetesPlaneNames |-> Absent]
    /\ send = IdleSend
    /\ impacted = IdleImpacted
    /\ service = NewService
    /\ watcher = NewWatcher

\* The services start with the resources created earlier stored in a
\* terminal state.
Init == Construct([r \in ResourceNames |-> Object("Succeeded")])

\* The services start on an empty resource store.
InitEmpty == Construct([r \in ResourceNames |-> Absent])

NextAsync ==
    \/ \E r \in ResourceNames : FrontendPut(r)
    \/ \E r \in ResourceNames : FrontendDelete(r)
    \/ \E n \in Notifiers, r \in ResourceNames : NotifyGet(n, r)
    \/ \E n \in Notifiers : NotifySave(n)
    \/ \E n \in Notifiers : NotifyQueue(n)
    \/ \E n \in Notifiers : NotifySaveFailed(n)
    \/ ServiceRun
    \/ \E m \in queue : WorkerClaim(m)
    \/ \E run \in ControllerRuns : WorkerComplete(run[1], run[2], run[3])

Spec == Init /\ [][NextAsync]_vars

WorkerSteps ==
    \/ ServiceRun
    \/ \E m \in queue : WorkerClaim(m)
    \/ \E run \in ControllerRuns : WorkerComplete(run[1], run[2], run[3])

\* The lifecycle of operations: the frontend, the worker, and notify calls made
\* one after the other, which write to the resources the worker is working on.
SerialNotifier == "n1"

NextLifecycle ==
    \/ \E r \in ResourceNames : FrontendPut(r)
    \/ \E r \in ResourceNames : FrontendDelete(r)
    \/ \E r \in ResourceNames : NotifyGet(SerialNotifier, r)
    \/ NotifySave(SerialNotifier)
    \/ NotifyQueue(SerialNotifier)
    \/ NotifySaveFailed(SerialNotifier)
    \/ WorkerSteps

\* The worker service is started and keeps taking steps while it has work.
SpecFair == Init /\ [][NextLifecycle]_vars /\ WF_vars(WorkerSteps)

(***************************************************************************)
(* The controller registry on its own: registrations and lookups.          *)
(***************************************************************************)
RegisterControllers ==
    /\ registry[<<ResourceTypeAny, OperationMethodAny>>] = NoFactory
    /\ registry' = registerControllers(registry)
    /\ response' = [op |-> "Register", type |-> ResourceTypeAny, method |-> OperationMethodAny]
    /\ UNCHANGED <<serviceVars, planeVars, routingVars, asyncVars, started>>

RegisterController(type, method, factory) ==
    /\ registry[<<type, method>>] = NoFactory
    /\ registry' = Register(registry, type, method, factory)
    /\ response' = [op |-> "Register", type |-> type, method |-> method]
    /\ UNCHANGED <<serviceVars, planeVars, routingVars, asyncVars, started>>

DispatchOperation(type, method) ==
    /\ response' = [op |-> "Dispatch", type |-> type, method |-> method,
                    factory |-> Dispatch(registry, type, method)]
    /\ UNCHANGED <<serviceVars, planeVars, routingVars, asyncVars, registryVars>>

NextDispatch ==
    \/ RegisterControllers
    \/ \E t \in OperationTypes, m \in OperationMethods, f \in OtherFactories :
          RegisterController(t, m, f)
    \/ \E t \in OperationTypes, m \in OperationMethods : DispatchOperation(t, m)

SpecDispatch == Init /\ [][NextDispatch]_vars

(***************************************************************************)
(* Requests against the routing metadata.                                  *)
(***************************************************************************)
PutPlane(p, rec) ==
    /\ planes' = [planes EXCEPT ![p] = rec]
    /\ response' = [op |-> "PutPlane", status |-> 200]
    /\ UNCHANGED <<serviceVars, planeVars, groups, locations, asyncVars, registryVars>>

\* Variant of DeletePlane that also deletes the resource groups of the plane.
DeletePlane_Cascade(p) ==
    /\ planes' = [planes EXCEPT ![p] = Absent]
    /\ groups' = [k \in GroupKeys |-> IF k[1] = p THEN FALSE ELSE groups[k]]
    /\ response' = [op |-> "DeletePlane", plane |-> p,
                    status |-> IF planes[p] = Absent THEN 204 ELSE 200]
    /\ UNCHANGED <<serviceVars, planeVars, locations, asyncVars, registryVars>>

DeletePlane(p) ==
    /\ planes' = [planes EXCEPT ![p] = Absent]
    /\ response' = [op |-> "DeletePlane", plane |-> p,
                    status |-> IF planes[p] = Absent THEN 204 ELSE 200]
    /\ UNCHANGED <<serviceVars, planeVars, groups, locations, asyncVars, registryVars>>

\* GET of a plane.
GetPlane(p) ==
    /\ response' = [op |-> "GetPlane", plane |-> p,
                    status |-> IF planes[p] = Absent THEN 404 ELSE 200]
    /\ UNCHANGED <<serviceVars, planeVars, routingVars, asyncVars, registryVars>>

PutResourceGroup(k) ==
    /\ groups' = [groups EXCEPT ![k] = TRUE]
    /\ response' = [op |-> "PutResourceGroup", status |-> 200]
    /\ UNCHANGED <<serviceVars, planeVars, planes, locations, asyncVars, registryVars>>

DeleteResourceGroup(k) ==
    /\ groups' = [groups EXCEPT ![k] = FALSE]
    /\ response' = [op |-> "DeleteResourceGroup", status |-> IF groups[k] THEN 200 ELSE 204]
    /\ UNCHANGED <<serviceVars, planeVars, planes, locations, asyncVars, registryVars>>

PutLocation(k, rec) ==
    /\ locations' = [locations EXCEPT ![k] = rec]
    /\ response' = [op |-> "PutLocation", status |-> 200]
    /\ UNCHANGED <<serviceVars, planeVars, planes, groups, asyncVars, registryVars>>

DeleteLocation(k) ==
    /\ locations' = [locations EXCEPT ![k] = Absent]
    /\ response' = [op |-> "DeleteLocation", status |-> IF locations[k] = Absent THEN 204 ELSE 200]
    /\ UNCHANGED <<serviceVars, planeVars, planes, groups, asyncVars, registryVars>>

\* A proxied request: the routing validator runs against the current records.
Validate(id, locationName, apiVersion, fault, rt) ==
    /\ rt \in RangeStops(id, locationName)
    /\ response' = [op |-> "ValidateDownstream", id |-> id, location |-> locationName,
                    apiVersion |-> apiVersion, fault |-> fault, rt |-> rt,
                    result |-> ValidateDownstream(id, locationName, apiVersion, fault, rt)]
    /\ UNCHANGED <<serviceVars, planeVars, routingVars, asyncVars, registryVars>>

NextRouting ==
    \/ \E p \in PlaneNames, rec \in PlaneRecords : PutPlane(p, rec)
    \/ \E p \in PlaneNames : DeletePlane(p)
    \/ \E p \in PlaneNames : GetPlane(p)
    \/ \E k \in GroupKeys : PutResourceGroup(k)
    \/ \E k \in GroupKeys : DeleteResourceGroup(k)
    \/ \E k \in LocationKeys, rec \in LocationRecords : PutLocation(k, rec)
    \/ \E k \in LocationKeys : DeleteLocation(k)
    \/ \E id \in ResourceIDs, l \in LocationNames, v \in APIVersions, f \in Faults,
          rt \in TableTypeNames \cup {NoMatch} : Validate(id, l, v, f, rt)

SpecRouting == Init /\ [][NextRouting]_vars

(***************************************************************************)
(* HTTP routing of the dynamic resource provider's frontend                *)
(* (registerRoutes) and of the Kubernetes planes module                    *)
(* (Module.Initialize).  A path is the sequence of its segments.           *)
(***************************************************************************)
HTTPMethods == {"GET", "PUT", "DELETE", "POST", "PATCH"}

\* Pattern segments: a literal, a {name} parameter, a {name:regexp}
\* parameter given by the strings its regexp accepts.
Lit(s) == [kind |-> "lit", accepts |-> {s}]
Param == [kind |-> "param", accepts |-> {}]
Regexp(accepted) == [kind |-> "regexp", accepts |-> accepted]

SegmentMatches(seg, s) ==
    IF seg.kind = "param" THEN s # "" ELSE s \in seg.accepts

\* A route pattern matches a path segment by segment; literals compare by
\* case.
PatternMatches(pattern, path) ==
    /\ Len(pattern) = Len(path)
    /\ \A i \in 1 .. Len(pattern) : SegmentMatches(pattern[i], path[i])

Route(pattern, method, operation) ==
    [pattern |-> pattern, method |-> method, operation |-> operation]

\* The nested r.Route prefixes of registerRoutes.
PlaneRoute == <<Lit("planes"), Lit("radius"), Param>>
ProviderRoute == PlaneRoute \o <<Lit("providers"), Param>>
LocationRoute == ProviderRoute \o <<Lit("locations"), Param>>
ResourceCollectionRoute ==
    PlaneRoute \o <<Regexp({"resourcegroups", "resourceGroups"}), Param,
                    Lit("providers"), Param, Param>>
ResourceRoute == ResourceCollectionRoute \o <<Param>>

\* The routes of registerRoutes with their operation.
DynamicRoutes ==
    { Route(ProviderRoute \o <<Param>>, "GET", "LISTPLANESCOPE"),
      Route(LocationRoute \o <<Regexp({"operationresults", "operationResults"}), Param>>,
            "GET", "GETOPERATIONRESULT"),
      Route(LocationRoute \o <<Regexp({"operationstatuses", "operationStatuses"}), Param>>,
            "GET", "GETOPERATIONSTATUS"),
      Route(ResourceCollectionRoute, "GET", "LIST"),
      Route(ResourceRoute, "GET", "GET"),
      Route(ResourceRoute, "PUT", "PUT"),
      Route(ResourceRoute, "DELETE", "DELETE") }

\* Variant of registerRoutes that installs no NotFound and MethodNotAllowed
\* handlers: the router answers with its plain-text defaults.
registerRoutes_DefaultHandlers ==
    [notFound |-> "plain", methodNotAllowed |-> "plain", routes |-> DynamicRoutes]

\* Service.registerRoutes of the dynamic resource provider: the handlers for
\* unmatched requests, then the routes.
registerRoutes ==
    [notFound |-> "APINotFoundHandler",
     methodNotAllowed |-> "APIMethodNotAllowedHandler",
     routes |-> DynamicRoutes]

\* Module.Initialize of the Kubernetes planes module: its routes on the
\* router of the UCP server, which answers unmatched requests itself.
planeCollectionPath == <<Lit("planes"), Lit("kubernetes")>>
planeResourcePath == <<Lit("planes"), Lit("kubernetes"), Param>>

Initialize ==
    [notFound |-> "server",
     methodNotAllowed |-> "server",
     routes |->
        { Route(planeCollectionPath, "GET", "LIST"),
          Route(planeResourcePath, "GET", "GET"),
          Route(planeResourcePath, "PUT", "PUT"),
          Route(planeResourcePath, "DELETE", "DELETE") }]

Routers == [dynamicrp |-> registerRoutes, kubernetes |-> Initialize]

\* What a handler for unmatched requests writes: the handlers of the
\* validator package an ARM error body, the router's default plain text.
ErrorResponse(handler, status, code) ==
    [status |-> status,
     body |-> IF handler \in {"APINotFoundHandler", "APIMethodNotAllowedHandler"}
              THEN "ARM error"
              ELSE IF handler = "plain" THEN "text/plain" ELSE "unspecified",
     code |-> IF handler = "plain" THEN "" ELSE code,
     operation |-> ""]

\* chi.Mux.ServeHTTP: the handler of the route that matches path and method;
\* the MethodNotAllowed handler when routes match the path under other
\* methods only; the NotFound handler when no route matches the path.
ServeHTTP(router, path, method) ==
    LET matching == { rt \in router.routes : PatternMatches(rt.pattern, path) }
        handling == { rt \in matching : rt.method = method }
    IN  IF handling # {}
        THEN [status |-> "handler", body |-> "", code |-> "",
              operation |-> (CHOOSE rt \in handling : TRUE).operation]
        ELSE IF matching # {}
        THEN ErrorResponse(router.methodNotAllowed, 405, "MethodNotAllowed")
        ELSE ErrorResponse(router.notFound, 404, "NotFound")

\* Request paths: paths of every route, paths next to them, and paths that
\* differ from a route in the case of a literal.
DynamicPath == <<"planes", "radius", "local", "resourcegroups", "rg1", "providers",
                 "Applications.Test", "exampleResources", "r1">>
OperationPath == <<"planes", "radius", "local", "providers", "Applications.Test",
                   "locations", "global", "operationstatuses", "op1">>
KubernetesPath == <<"planes", "kubernetes", "local">>

Prefixes(path) == { SubSeq(path, 1, n) : n \in 1 .. Len(path) }

RequestPaths ==
    Prefixes(DynamicPath) \cup Prefixes(OperationPath) \cup Prefixes(KubernetesPath)
        \cup { <<"abc">>,
               <<"Planes", "kubernetes">>,
               [DynamicPath EXCEPT ![4] = "resourceGroups"],
               [DynamicPath EXCEPT ![4] = "RESOURCEGROUPS"],
               [OperationPath EXCEPT ![8] = "operationResults"],
               [OperationPath EXCEPT ![8] = "operations"] }

\* One HTTP request served by one of the routers.
Request(name, path, method) ==
    /\ response' = [op |-> "ServeHTTP", router |-> name, path |-> path, method |-> method,
                    result |-> ServeHTTP(Routers[name], path, method)]
    /\ UNCHANGED <<serviceVars, planeVars, routingVars, asyncVars, registryVars>>

NextRouter ==
    \E name \in DOMAIN Routers, path \in RequestPaths, method \in HTTPMethods :
        Request(name, path, method)

SpecRouter == Init /\ [][NextRouter]_vars

(***************************************************************************)
(* Kubernetes planes: the versioned resource, the data model, their        *)
(* conversions, and the operations Module.Initialize registers.            *)
(***************************************************************************)
Servers == {"https://cluster-a", "https://cluster-b"}
Tokens == {"token-a", "token-b"}
AuthKinds == {"InCluster", "ServiceAccountToken"}
NilAuth == [type |-> "nil", kind |-> "", tokenData |-> ""]
NilTokenAuth == [absent |-> TRUE]

\* Properties.Auth of the versioned resource: one of the two configuration
\* types, or a configuration of another type.
VersionedAuths ==
    {[type |-> "KubernetesInClusterConfiguration", kind |-> "InCluster", tokenData |-> ""]}
        \cup {[type |-> "KubernetesServiceAccountTokenConfiguration",
               kind |-> "ServiceAccountToken", tokenData |-> t] : t \in Tokens}
        \cup {[type |-> "other", kind |-> "Other", tokenData |-> ""]}

\* Request bodies of PUT.
KubernetesPlaneResources ==
    [name : KubernetesPlaneNames, server : Servers, auth : VersionedAuths]

\* datamodel.KubernetesAuthentication values: any kind, with or without the
\* InCluster and ServiceAccountToken members.
DataModelAuths ==
    [kind : AuthKinds \cup {"Other"},
     inCluster : BOOLEAN,
     serviceAccountToken : {NilTokenAuth} \cup [tokenData : Tokens \cup {""}]]

KubernetesPlanes ==
    [name : KubernetesPlaneNames, server : Servers, auth : DataModelAuths]

\* KubernetesPlaneResource.ConvertTo
ConvertTo(src) ==
    LET converted == [name |-> src.name, server |-> src.server,
                      auth |-> [kind |-> src.auth.kind, inCluster |-> FALSE,
                                serviceAccountToken |-> NilTokenAuth]]
    IN  IF src.auth.type = "KubernetesInClusterConfiguration"
        THEN [err |-> "nil", model |-> [converted EXCEPT !.auth.inCluster = TRUE]]
        ELSE IF src.auth.type = "KubernetesServiceAccountTokenConfiguration"
        THEN [err |-> "nil",
              model |-> [converted EXCEPT !.auth.serviceAccountToken =
                                              [tokenData |-> src.auth.tokenData]]]
        ELSE [err |-> "ErrModelConversion", model |-> Absent]

\* Variant of ConvertFrom that copies the token data into the response.
ConvertFrom_WithTokenData(plane) ==
    [name |-> plane.name,
     server |-> plane.server,
     auth |-> IF plane.auth.kind = "InCluster"
              THEN [type |-> "KubernetesInClusterConfiguration", kind |-> plane.auth.kind,
                    tokenData |-> ""]
              ELSE IF plane.auth.kind = "ServiceAccountToken"
              THEN [type |-> "KubernetesServiceAccountTokenConfiguration",
                    kind |-> plane.auth.kind,
                    tokenData |-> IF plane.auth.serviceAccountToken = NilTokenAuth THEN ""
                                  ELSE plane.auth.serviceAccountToken.tokenData]
              ELSE NilAuth]

\* KubernetesPlaneResource.ConvertFrom: TokenData of the result stays unset.
ConvertFrom(plane) ==
    [name |-> plane.name,
     server |-> plane.server,
     auth |-> IF plane.auth.kind = "InCluster"
              THEN [type |-> "KubernetesInClusterConfiguration", kind |-> plane.auth.kind,
                    tokenData |-> ""]
              ELSE IF plane.auth.kind = "ServiceAccountToken"
              THEN [type |-> "KubernetesServiceAccountTokenConfiguration",
                    kind |-> plane.auth.kind, tokenData |-> ""]
              ELSE NilAuth]

\* PUT /planes/kubernetes/{planeName}: DefaultSyncPut with the converters of
\* planeResourceOptions.
KubernetesPlanePut(body) ==
    /\ LET converted == ConvertTo(body)
       IN  IF converted.err # "nil"
           THEN /\ response' = [op |-> "KubernetesPlanePut", name |-> body.name,
                                status |-> 400, body |-> {}]
                /\ UNCHANGED kubernetesPlanes
           ELSE /\ kubernetesPlanes' = [kubernetesPlanes EXCEPT ![body.name] = converted.model]
                /\ response' = [op |-> "KubernetesPlanePut", name |-> body.name,
                                status |-> 200, body |-> {ConvertFrom(converted.model)}]
    /\ UNCHANGED <<serviceVars, routingVars, asyncVars, registryVars>>

\* GET /planes/kubernetes/{planeName}: GetResource.
KubernetesPlaneGet(name) ==
    /\ response' =
          IF kubernetesPlanes[name] = Absent
          THEN [op |-> "KubernetesPlaneGet", name |-> name, status |-> 404, body |-> {}]
          ELSE [op |-> "KubernetesPlaneGet", name |-> name, status |-> 200,
                body |-> {ConvertFrom(kubernetesPlanes[name])}]
    /\ UNCHANGED <<serviceVars, routingVars, asyncVars, registryVars, planeVars>>

\* GET /planes/kubernetes: ListPlanesByType.
KubernetesPlaneList ==
    /\ response' = [op |-> "KubernetesPlaneList", name |-> "", status |-> 200,
                    body |-> { ConvertFrom(kubernetesPlanes[name]) :
                                 name \in { n \in KubernetesPlaneNames :
                                              kubernetesPlanes[n] # Absent } }]
    /\ UNCHANGED <<serviceVars, routingVars, asyncVars, registryVars, planeVars>>

\* Variant of KubernetesPlaneDelete that answers 404 for a plane that does
\* not exist.
KubernetesPlaneDelete_NotFound(name) ==
    /\ IF kubernetesPlanes[name] = Absent
       THEN /\ response' = [op |-> "KubernetesPlaneDelete", name |-> name,
                            status |-> 404, body |-> {}]
            /\ UNCHANGED kubernetesPlanes
       ELSE /\ kubernetesPlanes' = [kubernetesPlanes EXCEPT ![name] = Absent]
            /\ response' = [op |-> "KubernetesPlaneDelete", name |-> name,
                            status |-> 200, body |-> {}]
    /\ UNCHANGED <<serviceVars, routingVars, asyncVars, registryVars>>

\* DELETE /planes/kubernetes/{planeName}: DefaultSyncDelete.
KubernetesPlaneDelete(name) ==
    /\ IF kubernetesPlanes[name] = Absent
       THEN /\ response' = [op |-> "KubernetesPlaneDelete", name |-> name,
                            status |-> 204, body |-> {}]
            /\ UNCHANGED kubernetesPlanes
       ELSE /\ kubernetesPlanes' = [kubernetesPlanes EXCEPT ![name] = Absent]
            /\ response' = [op |-> "KubernetesPlaneDelete", name |-> name,
                            status |-> 200, body |-> {}]
    /\ UNCHANGED <<serviceVars, routingVars, asyncVars, registryVars>>

NextPlanes ==
    \/ \E body \in KubernetesPlaneResources : KubernetesPlanePut(body)
    \/ \E name \in KubernetesPlaneNames : KubernetesPlaneGet(name)
    \/ KubernetesPlaneList
    \/ \E name \in KubernetesPlaneNames : KubernetesPlaneDelete(name)

SpecPlanes == Init /\ [][NextPlanes]_vars

(***************************************************************************)
(* Reading dynamic resources: GET of a resource and the two list           *)
(* operations registerRoutes registers.                                    *)
(***************************************************************************)
ListScopes == {"resourceGroup", "plane"}

\* The resources a storage query at a scope returns.
Query(scope) == { r \in ResourceNames : store[r] # Absent }

\* Variant of FrontendGet that hides a resource whose operation is in
\* progress.
FrontendGet_HidesInProgress(r) ==
    /\ response' = [op |-> "GET", id |-> r,
                    status |-> IF store[r] # Absent
                                  /\ IsTerminal(store[r].properties.provisioningState)
                               THEN 200 ELSE 404]
    /\ UNCHANGED <<serviceVars, routingVars, asyncVars, registryVars, planeVars>>

\* GET of a resource: GetResource.
FrontendGet(r) ==
    /\ response' = [op |-> "GET", id |-> r,
                    status |-> IF store[r] = Absent THEN 404 ELSE 200]
    /\ UNCHANGED <<serviceVars, routingVars, asyncVars, registryVars, planeVars>>

\* GET of the collection at resource-group or plane scope: ListResources.
FrontendList(scope) ==
    /\ response' = [op |-> "LIST", scope |-> scope, status |-> 200, value |-> Query(scope)]
    /\ UNCHANGED <<serviceVars, routingVars, asyncVars, registryVars, planeVars>>

\* Requests to the dynamic resource provider with the worker running and
\* notifications arriving one after the other.
NextResources ==
    \/ \E r \in ResourceNames : FrontendGet(r)
    \/ \E scope \in ListScopes : FrontendList(scope)
    \/ NextLifecycle

SpecResources == InitEmpty /\ [][NextResources]_vars

(***************************************************************************)
(* CreateOrUpdateResource: the backend controller of the core resource     *)
(* provider, run against a mocked storage client and a mocked deployment   *)
(* processor.                                                              *)
(***************************************************************************)
\* The methods of the two tables of test cases.
RunMethods == {"PUT", "PATCH"}
\* Resource types of the cases; redisCaches is not a type of this provider.
RunResourceTypes == {"containers", "httpRoutes", "gateways", "redisCaches"}
\* What the mocked Get returns as its error.
GetErrs == {"nil", "ErrNotFound", "error getting object"}
\* What the mocked Render, Deploy and Save return as their error.
StepErrs == {"nil", "error"}
\* A case: the resource type and the errors the mocks return.
RunCases ==
    [rt : RunResourceTypes, getErr : GetErrs, renderErr : StepErrs,
     deployErr : StepErrs, saveErr : StepErrs]

\* convErr of a case: the resource type has no data model in this provider.
convErr(tt) == tt.rt = "redisCaches"

\* The calls in the order the controller makes them.
StepOrder == <<"Get", "Render", "Deploy", "Save">>

\* The calls the mocks of a case expect, in the order they expect them: Get
\* once; Render after Get when Get succeeded (for PUT: or reported not found)
\* and the type converts; Deploy after Render when Render succeeds; Save after
\* Deploy when Deploy succeeds.
ExpectedCalls(method, tt) ==
    LET proceeds ==
            IF method = "PUT"
            THEN tt.getErr \in {"nil", "ErrNotFound"} /\ ~convErr(tt)
            ELSE tt.getErr = "nil" /\ ~convErr(tt)
    IN  IF ~proceeds THEN <<"Get">>
        ELSE IF tt.renderErr # "nil" THEN <<"Get", "Render">>
        ELSE IF tt.deployErr # "nil" THEN <<"Get", "Render", "Deploy">>
        ELSE <<"Get", "Render", "Deploy", "Save">>

\* The outcome of a run: the calls made, the error and the result returned.
Outcome(calls, err) == [calls |-> calls, err |-> err, result |-> "Result{}"]

\* Variant of Run that saves the resource although Deploy failed.
Run_SavesAfterFailedDeploy(method, tt) ==
    IF tt.getErr = "error getting object"
    THEN Outcome(<<"Get">>, tt.getErr)
    ELSE IF method = "PATCH" /\ tt.getErr = "ErrNotFound"
    THEN Outcome(<<"Get">>, "ErrNotFound")
    ELSE IF convErr(tt)
    THEN Outcome(<<"Get">>, "invalid resource type")
    ELSE IF tt.renderErr # "nil"
    THEN Outcome(<<"Get", "Render">>, tt.renderErr)
    ELSE Outcome(<<"Get", "Render", "Deploy", "Save">>,
                 IF tt.deployErr # "nil" THEN tt.deployErr ELSE tt.saveErr)

\* Variant of Run that treats a PATCH of a missing resource as a PUT.
Run_PatchCreates(method, tt) ==
    IF tt.getErr = "error getting object"
    THEN Outcome(<<"Get">>, tt.getErr)
    ELSE IF convErr(tt)
    THEN Outcome(<<"Get">>, "invalid resource type")
    ELSE IF tt.renderErr # "nil"
    THEN Outcome(<<"Get", "Render">>, tt.renderErr)
    ELSE IF tt.deployErr # "nil"
    THEN Outcome(<<"Get", "Render", "Deploy">>, tt.deployErr)
    ELSE Outcome(<<"Get", "Render", "Deploy", "Save">>, tt.saveErr)

\* CreateOrUpdateResource.Run: Get the resource; an error other than not
\* found ends the run; not found ends a PATCH; an unsupported type ends the
\* run; then Render, Deploy and Save, each ending the run when it fails.
CreateOrUpdateResourceRun(method, tt) ==
    IF tt.getErr = "error getting object"
    THEN Outcome(<<"Get">>, tt.getErr)
    ELSE IF method = "PATCH" /\ tt.getErr = "ErrNotFound"
    THEN Outcome(<<"Get">>, "ErrNotFound")
    ELSE IF convErr(tt)
    THEN Outcome(<<"Get">>, "invalid resource type")
    ELSE IF tt.renderErr # "nil"
    THEN Outcome(<<"Get", "Render">>, tt.renderErr)
    ELSE IF tt.deployErr # "nil"
    THEN Outcome(<<"Get", "Render", "Deploy">>, tt.deployErr)
    ELSE Outcome(<<"Get", "Render", "Deploy", "Save">>, tt.saveErr)

\* One case of the test: the controller runs against the mocks of the case.
RunCase(method, tt) ==
    /\ response' = [op |-> "CreateOrUpdateResource.Run", method |-> method, tt |-> tt,
                    expected |-> ExpectedCalls(method, tt),
                    out |-> CreateOrUpdateResourceRun(method, tt)]
    /\ UNCHANGED <<serviceVars, planeVars, routingVars, asyncVars, registryVars>>

NextController ==
    \E method \in RunMethods, tt \in RunCases : RunCase(method, tt)

SpecController == Init /\ [][NextController]_vars

(***************************************************************************)
(* The dynamic controller run on its own: requests of any operation        *)
(* method, every outcome of the validation and of the inner controller.    *)
(***************************************************************************)
\* ctrl.Request: the operation type (resource type and method) and the API
\* version of the request.
ControllerRequests ==
    [type : OperationTypes, method : HTTPMethods \ {"GET"}, apiVersion : APIVersions]

\* One run of Controller.Run for a request.
ControllerRun(request, validation, inner) ==
    /\ response' = [op |-> "Controller.Run", request |-> request,
                    validation |-> validation, inner |-> inner,
                    out |-> Run(request.method, validation, inner)]
    /\ UNCHANGED <<serviceVars, planeVars, routingVars, asyncVars, registryVars>>

NextDynamicController ==
    \E request \in ControllerRequests, validation \in ValidationOutcomes,
       inner \in InnerOutcomes : ControllerRun(request, validation, inner)

SpecDynamicController == Init /\ [][NextDynamicController]_vars

(***************************************************************************)
(* The notifications filter: DeclarativeFilter.Send and the two paging     *)
(* loops it rests on.                                                      *)
(***************************************************************************)
\* Ids of infrastructure resources a notification can name, and the ids as
\* resources mention them in status.outputResources.
InfrastructureIDs == {"infra1", "infra2"}
Reasons == {"updated", "deleted"}
Notifications == [id : InfrastructureIDs, reason : Reasons]

\* generated.GenericResource: the id and the entries of
\* properties.status.outputResources (an id, or an entry without a string id).
GenericResources ==
    { [id |-> "ra", outputResources |-> <<"infra1">>],
      [id |-> "rb", outputResources |-> <<"INFRA1", "infra1", "infra2">>],
      [id |-> "rc", outputResources |-> <<NotString>>] }

\* The lists the server holds, as the pages it serves them in: at least one
\* page (an empty list is one page without values), at most MaxPages.
MaxPages == 2
ResourcePages == {<<>>} \cup { <<res>> : res \in GenericResources }
ResourceLists == UNION { [1..n -> ResourcePages] : n \in 1..MaxPages }
ProviderPages == {<<>>, <<"Applications.Core">>}
ProviderLists == UNION { [1..n -> ProviderPages] : n \in 1..MaxPages }

\* runtime.Pager of the Azure SDK: the page fetched last (none before the
\* first NextPage) and the pages the server has yet to serve.
NewPager(pages) == [current |-> Absent, pages |-> pages]

\* Pager.More: true before the first page was fetched, afterwards whether the
\* page fetched last carries a link to a next page.
More(pager) ==
    IF pager.current = Absent THEN TRUE ELSE pager.current.nextLink

\* Pager.NextPage, when the request succeeds.
NextPage(pager) ==
    [current |-> [value |-> Head(pager.pages), nextLink |-> Len(pager.pages) > 1],
     pages |-> Tail(pager.pages)]

\* Iterations of a loop are counted up to MaxIterations and then start over.
MaxIterations == 2

\* DeclarativeFilter.infrastructure: the ids of the output resources, entries
\* without a string id skipped.
infrastructure(resource) ==
    LET IsID(entry) == entry # NotString
    IN  SelectSeq(resource.outputResources, IsID)

\* The resources of a page that mention the notification's id, each once.
ImpactedOf(page, notification) ==
    LET Mentions(resource) ==
            \E i \in 1..Len(infrastructure(resource)) :
                EqualFold(infrastructure(resource)[i], notification.id)
        matched == SelectSeq(page, Mentions)
    IN  [i \in 1..Len(matched) |-> matched[i].id]

\* DeclarativeFilter.Send up to the call of recipeTypes: the client of the
\* resource providers is created and the pager built.  The filter handles one
\* notification at a time.
SendStart(notification, providers, clientErr) ==
    /\ send.pc = "idle"
    /\ impacted.pc = "idle"
    /\ IF clientErr
       THEN /\ response' = [op |-> "Send", notification |-> notification, err |-> "client error"]
            /\ UNCHANGED send
       ELSE /\ send' = [pc |-> "recipeTypes", notification |-> notification,
                        pager |-> NewPager(providers), results |-> <<>>, iterations |-> 0]
            /\ UNCHANGED response
    /\ UNCHANGED <<impacted, service, watcher, planeVars, routingVars, asyncVars, registryVars>>

\* One test of pager.More() in recipeTypes.  The body of the loop is empty (it
\* is commented out): no page is fetched and nothing is appended to results.
\* When the loop ends recipeTypes returns results, which is empty, so the
\* range loops of Send over the recipe types and their impacted resources
\* have nothing to run over and Send returns nil.
recipeTypesLoop ==
    /\ send.pc = "recipeTypes"
    /\ IF More(send.pager)
       THEN /\ send' = [send EXCEPT !.iterations = (send.iterations + 1) % (MaxIterations + 1)]
            /\ UNCHANGED response
       ELSE /\ send' = IdleSend
            /\ response' = [op |-> "Send", notification |-> send.notification, err |-> "nil"]
    /\ UNCHANGED <<impacted, service, watcher, planeVars, routingVars, asyncVars, registryVars>>

\* DeclarativeFilter.impactedResources up to its loop, called on its own (Send
\* does not get to call it).
impactedResourcesStart(notification, list, clientErr) ==
    /\ impacted.pc = "idle"
    /\ send.pc = "idle"
    /\ IF clientErr
       THEN /\ response' = [op |-> "impactedResources", notification |-> notification,
                            results |-> <<>>, err |-> "client error"]
            /\ UNCHANGED impacted
       ELSE /\ impacted' = [pc |-> "paging", notification |-> notification,
                            pager |-> NewPager(list), results |-> <<>>]
            /\ UNCHANGED response
    /\ UNCHANGED <<send, service, watcher, planeVars, routingVars, asyncVars, registryVars>>

\* One test of pager.More() in impactedResources and, when it is true, the
\* body of the loop: NextPage, then the resources of the page.
impactedResourcesLoop(fetchErr) ==
    /\ impacted.pc = "paging"
    /\ IF ~More(impacted.pager)
       THEN /\ fetchErr = FALSE
            /\ impacted' = IdleImpacted
            /\ response' = [op |-> "impactedResources", notification |-> impacted.notification,
                            results |-> impacted.results, err |-> "nil"]
       ELSE IF fetchErr
       THEN /\ impacted' = IdleImpacted
            /\ response' = [op |-> "impactedResources", notification |-> impacted.notification,
                            results |-> <<>>, err |-> "page error"]
       ELSE LET next == NextPage(impacted.pager)
            IN  /\ impacted' = [impacted EXCEPT
                                   !.pager = next,
                                   !.results = impacted.results \o
                                       ImpactedOf(next.current.value, impacted.notification)]
                /\ UNCHANGED response
    /\ UNCHANGED <<send, service, watcher, planeVars, routingVars, asyncVars, registryVars>>

NextFilter ==
    \/ \E notification \in Notifications, providers \in ProviderLists, clientErr \in BOOLEAN :
          SendStart(notification, providers, clientErr)
    \/ recipeTypesLoop
    \/ \E notification \in Notifications, list \in ResourceLists, clientErr \in BOOLEAN :
          impactedResourcesStart(notification, list, clientErr)
    \/ \E fetchErr \in BOOLEAN : impactedResourcesLoop(fetchErr)

\* A call that was started keeps running: the goroutine that made it is
\* scheduled until the call returns.
SpecFilter ==
    /\ Init
    /\ [][NextFilter]_vars
    /\ WF_vars(recipeTypesLoop)
    /\ WF_vars(\E fetchErr \in BOOLEAN : impactedResourcesLoop(fetchErr))

(***************************************************************************)
(* The notifications Service: Run with the goroutine that runs             *)
(* service.Start, and the handler of topic events.                         *)
(***************************************************************************)
\* Payloads of topic events: the JSON of a notification, or data that
\* json.Unmarshal rejects.
Malformed == [malformed |-> TRUE]
Payloads == Notifications \cup {Malformed}
\* What filter.Send returns.
SendResults == {"nil", "error"}

\* Variant of eventHandler that asks for redelivery of an event it could not
\* unmarshal.
eventHandler_RetryOnUnmarshal(filter, payload, sendResult) ==
    IF ~filter
    THEN [retry |-> FALSE, err |-> "nil", sent |-> FALSE]
    ELSE IF payload = Malformed
    THEN [retry |-> TRUE, err |-> "failed to unmarshal event data", sent |-> FALSE]
    ELSE IF sendResult # "nil"
    THEN [retry |-> TRUE, err |-> "failed to send notification", sent |-> TRUE]
    ELSE [retry |-> FALSE, err |-> "nil", sent |-> TRUE]

\* Service.eventHandler: retry and err as returned, and whether filter.Send
\* was called.
eventHandler(filter, payload, sendResult) ==
    IF ~filter
    THEN [retry |-> FALSE, err |-> "nil", sent |-> FALSE]
    ELSE IF payload = Malformed
    THEN [retry |-> FALSE, err |-> "failed to unmarshal event data", sent |-> FALSE]
    ELSE IF sendResult # "nil"
    THEN [retry |-> TRUE, err |-> "failed to send notification", sent |-> TRUE]
    ELSE [retry |-> FALSE, err |-> "nil", sent |-> TRUE]

\* A topic event is delivered to the handler of the service.
TopicEvent(payload, sendResult) ==
    /\ response' = [op |-> "eventHandler", filter |-> service.filter, payload |-> payload,
                    send |-> sendResult,
                    out |-> eventHandler(service.filter, payload, sendResult)]
    /\ UNCHANGED <<serviceVars, planeVars, routingVars, asyncVars, registryVars>>

\* Service.Run up to the select: the filter is set, the handler added, the
\* error channel made and the goroutine started.
NotificationsRun(addErr) ==
    /\ service.run = "new"
    /\ IF addErr
       THEN service' = [service EXCEPT !.filter = TRUE, !.run = "returned",
                                       !.result = "failed to add topic event handler"]
       ELSE service' = [service EXCEPT !.filter = TRUE, !.run = "select", !.go = "starting"]
    /\ UNCHANGED <<send, impacted, watcher, response, planeVars, routingVars, asyncVars, registryVars>>

\* The goroutine: service.Start returns, with an error or without, and the
\* goroutine gets to its send on errChan.
StartReturns(err) ==
    /\ service.go = "starting"
    /\ service' = [service EXCEPT !.go = "sending",
                                  !.msg = IF err THEN "failed to start service" ELSE "nil"]
    /\ UNCHANGED <<send, impacted, watcher, response, planeVars, routingVars, asyncVars, registryVars>>

\* The context of Run is cancelled.
Cancel ==
    /\ service.run # "new"
    /\ ~service.ctxDone
    /\ service' = [service EXCEPT !.ctxDone = TRUE]
    /\ UNCHANGED <<send, impacted, watcher, response, planeVars, routingVars, asyncVars, registryVars>>

\* select, case err := <-errChan: the send of the goroutine is received and
\* Run returns what was sent.
SelectReceive ==
    /\ service.run = "select"
    /\ service.go = "sending"
    /\ service' = [service EXCEPT !.run = "returned", !.result = service.msg, !.go = "done"]
    /\ UNCHANGED <<send, impacted, watcher, response, planeVars, routingVars, asyncVars, registryVars>>

\* select, case <-ctx.Done(): on to the graceful stop.
SelectDone ==
    /\ service.run = "select"
    /\ service.ctxDone
    /\ service' = [service EXCEPT !.run = "stopping"]
    /\ UNCHANGED <<send, impacted, watcher, response, planeVars, routingVars, asyncVars, registryVars>>

\* service.GracefulStop: on an error Run returns it, otherwise Run goes on to
\* drain the error channel.
GracefulStop(stopErr) ==
    /\ service.run = "stopping"
    /\ IF stopErr
       THEN service' = [service EXCEPT !.run = "returned", !.result = "failed to stop service"]
       ELSE service' = [service EXCEPT !.run = "drain"]
    /\ UNCHANGED <<send, impacted, watcher, response, planeVars, routingVars, asyncVars, registryVars>>

\* <-errChan after the graceful stop: the send of the goroutine is received
\* and Run returns nil.
Drain ==
    /\ service.run = "drain"
    /\ service.go = "sending"
    /\ service' = [service EXCEPT !.run = "returned", !.result = "nil", !.go = "done"]
    /\ UNCHANGED <<send, impacted, watcher, response, planeVars, routingVars, asyncVars, registryVars>>

NextNotifications ==
    \/ \E payload \in Payloads, sendResult \in SendResults : TopicEvent(payload, sendResult)
    \/ \E addErr \in BOOLEAN : NotificationsRun(addErr)
    \/ \E err \in BOOLEAN : StartReturns(err)
    \/ Cancel
    \/ SelectReceive
    \/ SelectDone
    \/ \E stopErr \in BOOLEAN : GracefulStop(stopErr)
    \/ Drain

SpecNotifications == Init /\ [][NextNotifications]_vars

(***************************************************************************)
(* The Kubernetes watcher: watch and unwatch, called for the built-in      *)
(* types found by discovery and for created and deleted CRDs.              *)
(***************************************************************************)
\* Number of event-handler registrations a run of the model makes.
MaxRegistrations == 3

\* shouldWatch
shouldWatch(gvk) ==
    IF gvk.Group = "events.k8s.io" /\ gvk.Kind = "Event" THEN FALSE
    ELSE IF gvk.Group = "coordination.k8s.io" /\ gvk.Kind = "Lease" THEN FALSE
    ELSE IF gvk.Group = "ucp.dev" /\ gvk.Kind = "QueueMessage" THEN FALSE
    ELSE IF gvk.Group = "ucp.dev" /\ gvk.Kind = "Resource" THEN FALSE
    ELSE TRUE

\* Variant of watch that registers a handler without looking for an entry of
\* the kind in the state map.
watch_NoStateCheck(w, gvk, informerErr, addErr) ==
    IF ~shouldWatch(gvk) THEN w
    ELSE IF informerErr THEN w
    ELSE IF addErr THEN w
    ELSE LET registration == w.registrations + 1
         IN  [w EXCEPT !.state = [k \in DOMAIN w.state \cup {gvk} |->
                                      IF k = gvk THEN registration ELSE w.state[k]],
                       !.handlers[gvk] = @ \cup {registration},
                       !.registrations = registration]

\* kubernetesWatcher.watch, under the mutex from its first statement to its
\* return: the watcher after the call.
watch(w, gvk, informerErr, addErr) ==
    IF gvk \in DOMAIN w.state THEN w
    ELSE IF ~shouldWatch(gvk) THEN w
    ELSE IF informerErr THEN w
    ELSE IF addErr THEN w
    ELSE LET registration == w.registrations + 1
         IN  [w EXCEPT !.state = [k \in DOMAIN w.state \cup {gvk} |->
                                      IF k = gvk THEN registration ELSE w.state[k]],
                       !.handlers[gvk] = @ \cup {registration},
                       !.registrations = registration]

\* kubernetesWatcher.unwatch, under the mutex: the watcher after the call.
unwatch(w, gvk, informerErr, removeErr) ==
    IF gvk \notin DOMAIN w.state THEN w
    ELSE IF informerErr THEN w
    ELSE IF removeErr THEN w
    ELSE [w EXCEPT !.state = [k \in DOMAIN w.state \ {gvk} |-> w.state[k]],
                   !.handlers[gvk] = @ \ {w.state[gvk]}]

\* Whether a call of watch would register one more handler.
Registers(w, gvk, informerErr, addErr) ==
    watch(w, gvk, informerErr, addErr).registrations # w.registrations

\* The resources that discovery lists: name, kind with group and version, and
\* whether the verbs include watch.
APIResources ==
    {[Name |-> "deployments", gvk |-> GVK("apps", "v1", "Deployment"), watch |-> TRUE],
     [Name |-> "deployments/scale", gvk |-> GVK("apps", "v1", "Deployment"), watch |-> TRUE],
     [Name |-> "events", gvk |-> GVK("", "v1", "Event"), watch |-> TRUE],
     [Name |-> "events", gvk |-> GVK("", "v1", "Event"), watch |-> FALSE],
     [Name |-> "events", gvk |-> GVK("events.k8s.io", "v1", "Event"), watch |-> TRUE],
     [Name |-> "leases", gvk |-> GVK("coordination.k8s.io", "v1", "Lease"), watch |-> TRUE]}
\* strings.Contains(resource.Name, "/") for the names of the model.
IsSubresource(name) == name = "deployments/scale"
\* The kinds that custom resource definitions define.
CRDKinds ==
    {GVK("radapp.io", "v1alpha3", "Recipe"),
     GVK("ucp.dev", "v1alpha1", "QueueMessage"),
     GVK("ucp.dev", "v1alpha1", "Resource")}

\* One turn of the loop of watchBuiltInTypes: subresources and resources
\* without the watch verb are skipped, the others are watched.
watchBuiltInTypes(resource, informerErr, addErr) ==
    /\ Registers(watcher, resource.gvk, informerErr, addErr) =>
           watcher.registrations < MaxRegistrations
    /\ watcher' =
           IF IsSubresource(resource.Name) \/ ~resource.watch
           THEN [watcher EXCEPT !.last = [op |-> "skip", gvk |-> resource.gvk]]
           ELSE [watch(watcher, resource.gvk, informerErr, addErr)
                     EXCEPT !.last = [op |-> "watch", gvk |-> resource.gvk]]
    /\ UNCHANGED <<send, impacted, service, response, planeVars, routingVars, asyncVars,
                   registryVars>>

\* crdEventHandler.Create
CRDCreate(gvk, informerErr, addErr) ==
    /\ Registers(watcher, gvk, informerErr, addErr) =>
           watcher.registrations < MaxRegistrations
    /\ watcher' = [watch(watcher, gvk, informerErr, addErr)
                       EXCEPT !.last = [op |-> "watch", gvk |-> gvk]]
    /\ UNCHANGED <<send, impacted, service, response, planeVars, routingVars, asyncVars,
                   registryVars>>

\* crdEventHandler.Delete
CRDDelete(gvk, informerErr, removeErr) ==
    /\ watcher' = [unwatch(watcher, gvk, informerErr, removeErr)
                       EXCEPT !.last = [op |-> "unwatch", gvk |-> gvk,
                                        failed |-> informerErr \/ removeErr]]
    /\ UNCHANGED <<send, impacted, service, response, planeVars, routingVars, asyncVars,
                   registryVars>>

NextWatcher ==
    \/ \E resource \in APIResources, informerErr, addErr \in BOOLEAN :
           watchBuiltInTypes(resource, informerErr, addErr)
    \/ \E gvk \in CRDKinds, informerErr, addErr \in BOOLEAN : CRDCreate(gvk, informerErr, addErr)
    \/ \E gvk \in CRDKinds, informerErr, removeErr \in BOOLEAN :
           CRDDelete(gvk, informerErr, removeErr)

SpecWatcher == Init /\ [][NextWatcher]_vars

(***************************************************************************)
(* Properties of the routing validator.                                    *)
(***************************************************************************)
\* The request served last was a routing validation whose storage reads all succeeded.
Validated == response.op = "ValidateDownstream" /\ response.fault = "none"
ReqPlane == planes[PlaneScope(response.id)]
ReqGroupOK ==
    FindScopeResourceGroups(response.id) = "" \/ groups[RootScope(response.id)]
ReqLocation == locations[LocationID(response.id, response.location)]
ReqMatches == Matches(ReqLocation, SearchName(response.id))
\* The (type, apiVersion) pair of the request is listed in the Location's table.
ReqListed ==
    \E name \in ReqMatches : response.apiVersion \in ReqLocation.resourceTypes[name]
ReqLegacy == LookupResourceProvider(ReqPlane, ProviderNamespace(response.id))

\* C2 (as stated): whenever a Location record exists whose table has no entry
\* for the id's type, ValidateDownstream fails with InvalidError and does not
\* take the legacy route.
C2_Original ==
    (Validated /\ ReqLocation # Absent /\ ReqMatches = {})
        => /\ response.result.err = "InvalidError"
           /\ response.result.url = NilURL

\* C2 (amended): when the plane and (if named) the resource group exist and a
\* Location record exists whose table has no entry for the id's type,
\* ValidateDownstream fails with InvalidError "resource type not supported by
\* location", returns no URL and never consults the plane's legacy map.
C2_DeclarativeBeforeLegacy ==
    (Validated /\ ReqPlane # Absent /\ ReqGroupOK /\ ReqLocation # Absent /\ ReqMatches = {})
        => /\ response.result.err = "InvalidError"
           /\ response.result.msg = "resource type not supported by location"
           /\ response.result.url = NilURL
           /\ \A i \in DOMAIN response.result.reads : response.result.reads[i] # "legacy"

C2_Witness ==
    /\ Validated /\ ReqPlane # Absent /\ ReqGroupOK
    /\ ReqLocation # Absent /\ ReqMatches = {}
    /\ ReqLegacy = GoodAddress
    /\ response.result.err = "InvalidError"

\* C3 (as stated): with plane and resource group present and no Location
\* record, ValidateDownstream returns exactly the URL the plane's map stores
\* for the namespace, and fails "not configured" when the map has no entry.
C3_Original ==
    (Validated /\ ReqPlane # Absent /\ ReqGroupOK /\ ReqLocation = Absent)
        => IF ReqLegacy = ""
           THEN /\ response.result.err = "InvalidError"
                /\ response.result.msg = "resource provider not configured"
           ELSE /\ response.result.err = "nil"
                /\ response.result.url = <<"url", ReqLegacy>>

\* C3 (amended): with plane and resource group present and no Location record,
\* ValidateDownstream fails "not configured" when the plane's map has no entry
\* for the namespace, fails with InvalidError "failed to parse downstream URL"
\* when the stored URL does not parse, and otherwise returns the stored URL.
C3_LegacyFallback ==
    (Validated /\ ReqPlane # Absent /\ ReqGroupOK /\ ReqLocation = Absent)
        => IF ReqLegacy = ""
           THEN /\ response.result.err = "InvalidError"
                /\ response.result.msg = "resource provider not configured"
           ELSE IF ReqLegacy = BadAddress
           THEN /\ response.result.err = "InvalidError"
                /\ response.result.msg = "failed to parse downstream URL"
           ELSE /\ response.result.err = "nil"
                /\ response.result.url = <<"url", ReqLegacy>>

C3_Witness ==
    /\ Validated /\ ReqPlane # Absent /\ ReqGroupOK /\ ReqLocation = Absent
    /\ ReqLegacy = GoodAddress
    /\ response.result.url = <<"url", GoodAddress>>

\* C4 (as stated): for an id with a resource-group segment, ValidateDownstream
\* fails with NotFound if and only if the resource group record does not exist.
C4_Original ==
    (Validated /\ FindScopeResourceGroups(response.id) # "")
        => (response.result.err = "NotFoundError" <=> ~groups[RootScope(response.id)])

\* C4 (amended): for an id with a resource-group segment whose plane exists,
\* ValidateDownstream fails with NotFound if and only if the resource group
\* record does not exist, whatever the Location records and the legacy map.
C4_GroupNotFoundIff ==
    (Validated /\ FindScopeResourceGroups(response.id) # "" /\ ReqPlane # Absent)
        => (response.result.err = "NotFoundError" <=> ~groups[RootScope(response.id)])

C4_Witness ==
    /\ Validated /\ FindScopeResourceGroups(response.id) # "" /\ ReqPlane # Absent
    /\ ~groups[RootScope(response.id)]
    /\ ReqLocation # Absent
    /\ response.result.err = "NotFoundError"

\* C5 (as stated): whenever ValidateDownstream accepts, the (type, apiVersion)
\* pair is listed in the table of the Location record.
C5_Original ==
    (Validated /\ response.result.err = "nil")
        => (ReqLocation # Absent /\ ReqListed)

\* C5 (amended): whenever a Location record named locationName exists for the
\* id's namespace, ValidateDownstream accepts only a request whose
\* (type, apiVersion) pair is listed in that record's table, and rejects every
\* request whose pair is not listed; with no Location record the legacy route
\* can accept the request.
C5_AcceptedIsListed ==
    (Validated /\ ReqLocation # Absent)
        => (response.result.err = "nil" => ReqListed)

C5_Witness ==
    /\ Validated /\ ReqLocation # Absent
    /\ response.result.err = "nil"
    /\ ReqListed

\* C6: once the resource-type and API-version checks pass, ValidateDownstream
\* returns a nil URL exactly when no address is declared, returns the parsed
\* declared address otherwise, and fails with InvalidError when the address
\* does not parse.
C6_AddressOrLocal ==
    (/\ Validated /\ ReqPlane # Absent /\ ReqGroupOK /\ ReqLocation # Absent
     /\ response.rt # NoMatch
     /\ response.apiVersion \in ReqLocation.resourceTypes[response.rt])
        => /\ (response.result.err = "nil" /\ response.result.url = NilURL)
                <=> ReqLocation.address = NoAddress
           /\ ReqLocation.address = OtherAddress
                => (response.result.err = "nil" /\ response.result.url = <<"url", OtherAddress>>)
           /\ ReqLocation.address = BadAddress
                => (response.result.err = "InvalidError" /\ response.result.url = NilURL)

C6_Witness ==
    /\ Validated /\ ReqPlane # Absent /\ ReqGroupOK /\ ReqLocation # Absent
    /\ response.rt # NoMatch
    /\ response.apiVersion \in ReqLocation.resourceTypes[response.rt]
    /\ ReqLocation.address = OtherAddress
    /\ response.result.url = <<"url", OtherAddress>>

(***************************************************************************)
(* Properties of the notification filter, the status manager, the worker   *)
(* and the controller registry.                                            *)
(***************************************************************************)
\* The operations queued by notify for resource r that have not reached a
\* terminal status.
ActiveNotifyOps(r) ==
    { o \in OpIds : /\ statuses[o] # NoStatus
                    /\ statuses[o].source = "notify"
                    /\ statuses[o].resource = r
                    /\ ~IsTerminal(statuses[o].status) }

\* C1 (as stated): at most one active operation per resource id: while an
\* operation queued by notify for a resource id has not reached a terminal
\* state, no further notify for that id queues a second operation.
C1_AtMostOneActiveOperation ==
    \A r \in ResourceNames : Cardinality(ActiveNotifyOps(r)) <= 1

\* The change of one status record in a step is one the lifecycle allows.
StatusStep(old, new) ==
    \/ new = old
    \/ old = NoStatus /\ new.status = "Accepted"
    \/ /\ old # NoStatus
       /\ new = [old EXCEPT !.status = new.status]
       /\ \/ old.status = "Accepted" /\ new.status = "Updating"
          \/ old.status = "Updating" /\ IsTerminal(new.status)

StaleNotifySave(n) ==
    /\ notifier[n].pc \in {"save", "savefailed"}
    /\ notifier[n].stale
    /\ notifier'[n] # notifier[n]

\* The worker finishes an operation in this step holding an out-of-date ETag.
StaleWorkerSave ==
    /\ worker.pc = "executing"
    /\ worker.stale
    /\ worker'.pc = "idle"

\* C8: a Save carrying an ETag that is not the stored object's current one
\* leaves the store unchanged, in notify as in the worker; the worker's
\* message is back on the queue after such a Save; and a write that takes
\* effect makes every other ETag read from that resource out of date, so of
\* two writers that read the same version at most one write takes effect.
C8_ETagMismatchNeverWrites ==
    [][/\ \A n \in Notifiers : StaleNotifySave(n) => store' = store
       /\ StaleWorkerSave => (store' = store /\ worker.msg \in queue')
       /\ \A r \in ResourceNames :
             store'[r] # store[r] =>
                /\ Cardinality({n \in Notifiers : notifier'[n].id = r /\ ~notifier'[n].stale}) <= 1
                /\ worker'.msg.resource = r => worker'.stale]_vars

\* C8 witness: the worker's Save after execution met an ETag mismatch, nothing
\* was written and the message is queued again.
C8_Witness ==
    /\ response.op = "Save" /\ response.by = "worker"
    /\ ~response.matched /\ ~response.ok
    /\ \E m \in queue : m.op = response.opid /\ m.dequeueCount >= 1

EmptyRegistry == [k \in RegistryKeys |-> NoFactory]

\* C10: a lookup gives the factory registered for exactly (type, method) when
\* there is one and the wildcard registration otherwise; on the registry the
\* dynamic-rp backend builds, every (type, method) resolves to its one
\* controller.
C10_SpecificThenWildcard ==
    /\ response.op = "Dispatch" =>
          response.factory =
             IF registry[<<response.type, response.method>>] # NoFactory
             THEN registry[<<response.type, response.method>>]
             ELSE registry[<<ResourceTypeAny, OperationMethodAny>>]
    /\ \A t \in OperationTypes, m \in OperationMethods :
          Dispatch(registerControllers(EmptyRegistry), t, m) = DynamicFactory

\* C10 witness: with a specific registration for one pair next to the
\* wildcard, a lookup of that pair gave the specific factory.
C10_Witness ==
    /\ response.op = "Dispatch"
    /\ registry[<<ResourceTypeAny, OperationMethodAny>>] = DynamicFactory
    /\ registry[<<response.type, response.method>>] \in OtherFactories
    /\ response.factory = registry[<<response.type, response.method>>]

(***************************************************************************)
(* Properties of the HTTP routers.                                         *)
(***************************************************************************)
\* The routes of the router that served the last request whose pattern
\* matches the request's path.
ReqRoutes ==
    { rt \in Routers[response.router].routes : PatternMatches(rt.pattern, response.path) }

\* C11: a request that matches no registered operation ends in an error
\* response: 404 NotFound when no route has its path, 405 MethodNotAllowed
\* when routes have its path but none under its method, from the dynamic
\* resource provider with an ARM error body; every request ends either so or
\* in the handler of its operation.
C11_UnmatchedIsClientError ==
    response.op = "ServeHTTP" =>
        LET result == response.result
            handling == { rt \in ReqRoutes : rt.method = response.method }
            api == response.router = "dynamicrp"
        IN  /\ ReqRoutes = {} =>
                (result.status = 404 /\ result.code = "NotFound"
                    /\ (api => result.body = "ARM error"))
            /\ (ReqRoutes # {} /\ handling = {}) =>
                (result.status = 405 /\ result.code = "MethodNotAllowed"
                    /\ (api => result.body = "ARM error"))
            /\ handling # {} =>
                (result.status = "handler"
                    /\ result.operation \in { rt.operation : rt \in handling })

\* C11 witness: the dynamic resource provider answered 405 to a POST on a
\* resource path.
C11_Witness ==
    /\ response.op = "ServeHTTP"
    /\ response.router = "dynamicrp"
    /\ response.path = DynamicPath
    /\ response.method = "POST"
    /\ response.result.status = 405

(***************************************************************************)
(* Properties of the Kubernetes plane operations.                          *)
(***************************************************************************)
\* C12: DELETE of a plane that does not exist answers 204 and changes no
\* stored plane; DELETE of an existing plane answers 200 and removes that
\* plane only; a DELETE that follows a DELETE of the same plane answers 204;
\* after any DELETE the plane does not exist.
C12_DeleteIdempotent ==
    /\ [][response'.op = "KubernetesPlaneDelete" =>
             LET name == response'.name
             IN  /\ kubernetesPlanes[name] = Absent =>
                       (response'.status = 204 /\ kubernetesPlanes' = kubernetesPlanes)
                 /\ kubernetesPlanes[name] # Absent =>
                       /\ response'.status = 200
                       /\ kubernetesPlanes' = [kubernetesPlanes EXCEPT ![name] = Absent]
                 /\ (response.op = "KubernetesPlaneDelete" /\ response.name = name) =>
                       response'.status = 204]_vars
    /\ [](response.op = "KubernetesPlaneDelete" => kubernetesPlanes[response.name] = Absent)

\* C12 witness: an existing plane was deleted with 200 while another plane
\* stays stored.
C12_Witness ==
    /\ response.op = "KubernetesPlaneDelete"
    /\ response.status = 200
    /\ \E name \in KubernetesPlaneNames : kubernetesPlanes[name] # Absent

(***************************************************************************)
(* Properties of reading dynamic resources.                                *)
(***************************************************************************)
Exists(r) == store[r] # Absent

\* The operations accepted for resource r, and the one accepted last.
OpsOf(r) == { o \in OpIds : statuses[o] # NoStatus /\ statuses[o].resource = r }
LatestOp(r) == CHOOSE o \in OpsOf(r) : \A other \in OpsOf(r) : other <= o

WorkerPersisted(r) ==
    /\ response'.op = "Save" /\ response'.by = "worker" /\ response'.ok
    /\ response'.id = r
    /\ worker.pc = "executing" /\ worker'.pc = "idle"

C14_PlaneDeleteNoCascade ==
    /\ [][response'.op = "DeletePlane" =>
             /\ planes' = [planes EXCEPT ![response'.plane] = Absent]
             /\ groups' = groups
             /\ locations' = locations]_vars
    /\ [](response.op = "DeletePlane" => planes[response.plane] = Absent)
    /\ [](response.op = "GetPlane" =>
             (response.status = 404 <=> planes[response.plane] = Absent))
    /\ []((/\ Validated
           /\ ReqPlane = Absent
           /\ FindScopeResourceGroups(response.id) # ""
           /\ groups[RootScope(response.id)])
             => (response.result.err = "NotFoundError" /\ response.result.url = NilURL))

\* C14 witness: validation of an id in an orphaned resource group failed with
\* NotFoundError for the plane.
C14_Witness ==
    /\ Validated
    /\ ReqPlane = Absent
    /\ FindScopeResourceGroups(response.id) # ""
    /\ groups[RootScope(response.id)]
    /\ response.result.err = "NotFoundError"
    /\ response.result.msg = "plane not found"

(***************************************************************************)
(* Properties of CreateOrUpdateResource.Run.                               *)
(***************************************************************************)
Ran == response.op = "CreateOrUpdateResource.Run"
Called(step) == \E i \in 1..Len(response.out.calls) : response.out.calls[i] = step

C16_NotFoundPutContinuesPatchFails ==
    (Ran /\ response.tt.getErr = "ErrNotFound") =>
        /\ (response.method = "PUT" /\ ~convErr(response.tt)) => Called("Render")
        /\ (/\ response.method = "PUT"
            /\ ~convErr(response.tt)
            /\ response.tt.renderErr = "nil"
            /\ response.tt.deployErr = "nil"
            /\ response.tt.saveErr = "nil")
               => /\ response.out.calls = StepOrder
                  /\ response.out.err = "nil"
                  /\ response.out.result = "Result{}"
        /\ response.method = "PATCH"
               => /\ response.out.calls = <<"Get">>
                  /\ response.out.err = "ErrNotFound"

\* C16 witness: a PATCH run of a supported type whose Get reported not found
\* returned the not-found error.
C16_Witness ==
    /\ Ran
    /\ response.method = "PATCH"
    /\ response.tt.getErr = "ErrNotFound"
    /\ ~convErr(response.tt)
    /\ response.out.err = "ErrNotFound"

(***************************************************************************)
(* Properties of the conversion of Kubernetes planes.                      *)
(***************************************************************************)
\* Two data models that differ at most in ServiceAccountToken.TokenData.
SameButTokenData(p, q) ==
    /\ p.auth.serviceAccountToken # NilTokenAuth
    /\ q.auth.serviceAccountToken # NilTokenAuth
    /\ [p EXCEPT !.auth.serviceAccountToken.tokenData = ""]
           = [q EXCEPT !.auth.serviceAccountToken.tokenData = ""]

\* C17: ConvertFrom produces the same versioned resource for any two
\* KubernetesPlane data models that differ only in
\* ServiceAccountToken.TokenData, and no body of a response of the Kubernetes
\* plane API carries token data, whatever token is stored.
C17_TokenDataNeverReturned ==
    /\ \A p, q \in KubernetesPlanes :
           SameButTokenData(p, q) => ConvertFrom(p) = ConvertFrom(q)
    /\ response.op \in {"KubernetesPlanePut", "KubernetesPlaneGet", "KubernetesPlaneList"}
           => \A b \in response.body : b.auth.tokenData = ""

\* C17 witness: a GET answered 200 for a stored plane that holds a
\* service-account token, with a body that is the same as for any other token.
C17_Witness ==
    /\ response.op = "KubernetesPlaneGet"
    /\ response.status = 200
    /\ kubernetesPlanes[response.name] # Absent
    /\ kubernetesPlanes[response.name].auth.serviceAccountToken # NilTokenAuth
    /\ kubernetesPlanes[response.name].auth.serviceAccountToken.tokenData \in Tokens
    /\ \A t \in Tokens :
           response.body =
               {ConvertFrom([kubernetesPlanes[response.name]
                                EXCEPT !.auth.serviceAccountToken.tokenData = t])}

\* C18: ValidateDownstream resolves the plane first.  When the plane record
\* of the id's plane scope does not exist (and the store answers the plane
\* lookup), the result is NotFoundError for the plane with no URL, whatever
\* the resource group, the Location records and a failure of their lookups,
\* and the plane lookup is the only read that was made.
C18_PlaneResolvedFirst ==
    (/\ response.op = "ValidateDownstream"
     /\ response.fault # "plane"
     /\ planes[PlaneScope(response.id)] = Absent)
        => /\ response.result.err = "NotFoundError"
           /\ response.result.msg = "plane not found"
           /\ response.result.url = NilURL
           /\ response.result.reads = <<"plane">>

\* C18 witness: the plane was missing while the lookup of the resource group
\* would have failed, the Location record existed, and the validation ended
\* with NotFoundError for the plane.
C18_Witness ==
    /\ response.op = "ValidateDownstream"
    /\ response.fault = "group"
    /\ planes[PlaneScope(response.id)] = Absent
    /\ FindScopeResourceGroups(response.id) # ""
    /\ locations[LocationID(response.id, response.location)] # Absent
    /\ response.result.err = "NotFoundError"
    /\ response.result.reads = <<"plane">>

\* Two ids that differ only in the letter case of their type name (the
\* provider namespace has one spelling in the ids of the model).
DiffersOnlyInCase(id, other) ==
    /\ other # id
    /\ [other EXCEPT !.type = ""] = [id EXCEPT !.type = ""]
    /\ EqualFold(other.type, id.type)

\* C19 (as stated): when the Location record exists, the outcome of
\* ValidateDownstream is the same for any two ids that differ only in the
\* letter case of their type: a validation of the other id against the same
\* records, whichever key of the table its range loop stops at, gives the
\* result this validation gave.
C19_CaseInsensitiveOutcome ==
    (Validated /\ ReqLocation # Absent) =>
        \A other \in ResourceIDs :
            DiffersOnlyInCase(response.id, other) =>
                \A rt \in RangeStops(other, response.location) :
                    ValidateDownstream(other, response.location, response.apiVersion,
                                       "none", rt) = response.result

(***************************************************************************)
(* Properties of the dynamic controller.                                   *)
(***************************************************************************)
\* C20: when the validation of the resource type reports an invalid resource
\* type, Controller.Run returns a Failed result with code Invalid and no
\* error, a terminal result, and runs neither the PUT nor the DELETE
\* processing; any other validation error is returned as the error with an
\* empty result, again without running either processing.
C20_InvalidTypeIsTerminal ==
    response.op = "Controller.Run" =>
        /\ response.validation = "InvalidResourceTypeError" =>
               /\ response.out.state = "Failed"
               /\ IsTerminal(response.out.state)
               /\ response.out.code = "Invalid"
               /\ response.out.err = "nil"
               /\ response.out.ran = "none"
        /\ response.validation = "error" =>
               /\ response.out.err = "error"
               /\ response.out.state = ""
               /\ response.out.code = ""
               /\ response.out.ran = "none"

\* C20 witness: a PUT whose validation reported an invalid resource type
\* ended with the Failed result and without the inner controller, although
\* the inner controller would have succeeded.
C20_Witness ==
    /\ response.op = "Controller.Run"
    /\ response.request.method = "PUT"
    /\ response.validation = "InvalidResourceTypeError"
    /\ response.inner = "ok"
    /\ response.out = [state |-> "Failed", code |-> "Invalid", err |-> "nil", ran |-> "none"]

\* C21: after a successful validation Controller.Run runs the create-or-update
\* processing exactly when the operation method is PUT and the delete
\* processing exactly when it is DELETE, and returns what that processing
\* returns; for every other method it returns a Failed result with code
\* Invalid and no error and runs neither processing.
C21_MethodSelectsProcessing ==
    (response.op = "Controller.Run" /\ response.validation = "ok") =>
        /\ response.out.ran = "put" <=> response.request.method = "PUT"
        /\ response.out.ran = "delete" <=> response.request.method = "DELETE"
        /\ response.request.method = "PUT" => response.out = processPut(response.inner)
        /\ response.request.method = "DELETE" => response.out = processDelete(response.inner)
        /\ response.request.method \notin {"PUT", "DELETE"} =>
               response.out = [state |-> "Failed", code |-> "Invalid",
                               err |-> "nil", ran |-> "none"]

\* C21 witness: a validated request with a method other than PUT and DELETE
\* ended with the Failed result although the inner controller would have
\* succeeded.
C21_Witness ==
    /\ response.op = "Controller.Run"
    /\ response.validation = "ok"
    /\ response.request.method = "POST"
    /\ response.inner = "ok"
    /\ response.out.state = "Failed"
    /\ response.out.code = "Invalid"
    /\ response.out.ran = "none"

\* A step in which the notify call n returns after the Save that follows a
\* failed QueueAsyncOperation.
ReturnsAfterFailedEnqueue(n) ==
    notifier[n].pc = "savefailed" /\ notifier'[n].pc = "idle"

\* C22 (as stated): when notify returns after QueueAsyncOperation failed, the
\* stored resource has provisioning state Failed and notify returns the
\* enqueue error; and no resource is stored as Updating while no operation is
\* queued for it and no notify call is at work on it.
C22_FailedEnqueueMarksFailed ==
    /\ [][\A n \in Notifiers :
            ReturnsAfterFailedEnqueue(n) =>
                /\ response' = Returned(n, notifier[n].id, "queue error")
                /\ store'[notifier[n].id] # Absent
                /\ provisioningState(store'[notifier[n].id]) = "Failed"]_vars
    /\ [](\A r \in ResourceNames :
            (store[r] # Absent /\ provisioningState(store[r]) = "Updating") =>
                \/ \E m \in queue : m.resource = r
                \/ worker.msg.resource = r
                \/ \E n \in Notifiers : notifier[n].id = r)

\* The operations that notify calls have queued for resource r.
NotifyQueued(r) ==
    { o \in OpIds : /\ statuses[o] # NoStatus
                    /\ statuses[o].source = "notify"
                    /\ statuses[o].resource = r }

\* Only notify calls have acted on resource r: the worker was not started and
\* no request of the frontend queued an operation for r.
OnlyNotifyCalls(r) ==
    /\ ~started
    /\ \A o \in OpIds :
           statuses[o] # NoStatus => ~(statuses[o].source = "frontend" /\ statuses[o].resource = r)

\* C23 (as stated): of two notify calls on the same resource id, interleaved
\* in any order at their Get, Save and enqueue steps and with nothing else
\* acting on the resource, at most one queues an operation.
C23_AtMostOneNotifyQueues ==
    \A r \in ResourceNames :
        OnlyNotifyCalls(r) => Cardinality(NotifyQueued(r)) <= 1

(***************************************************************************)
(* Properties of the notifications filter.                                 *)
(***************************************************************************)
\* C24 (as stated): DeclarativeFilter.Send terminates: a Send that entered the
\* paging loop of recipeTypes returns, and a call of impactedResources that
\* entered its paging loop returns, the lists being finite.
C24_SendTerminates ==
    /\ (send.pc = "recipeTypes") ~> (send.pc = "idle")
    /\ (impacted.pc = "paging") ~> (impacted.pc = "idle")

(***************************************************************************)
(* Properties of the notifications Service.                                *)
(***************************************************************************)
\* C25: the event handler asks for redelivery exactly when filter.Send was
\* called and failed; an event whose payload cannot be unmarshalled is
\* reported as an error without retry and is not passed to the filter; an
\* event received while no filter is set is acknowledged with no error and
\* no retry; an event that was sent without error is acknowledged.
C25_RetryExactlyOnSendFailure ==
    response.op = "eventHandler" =>
        /\ response.out.retry <=> (response.out.sent /\ response.send # "nil")
        /\ response.out.sent <=> (response.filter /\ response.payload # Malformed)
        /\ (response.filter /\ response.payload = Malformed) =>
               (response.out.err = "failed to unmarshal event data" /\ ~response.out.retry)
        /\ ~response.filter => (response.out.err = "nil" /\ ~response.out.retry)
        /\ (response.out.sent /\ response.send = "nil") => response.out.err = "nil"
        /\ response.out.retry => response.out.err = "failed to send notification"

\* C25 witness: an event with a payload that cannot be unmarshalled reached
\* the handler of a service whose filter is set, while Send would have
\* failed, and was reported without retry.
C25_Witness ==
    /\ response.op = "eventHandler"
    /\ response.filter
    /\ response.payload = Malformed
    /\ response.send = "error"
    /\ ~response.out.retry
    /\ response.out.err = "failed to unmarshal event data"

\* C26 (as stated): whenever Run has returned, the goroutine that runs
\* service.Start is not left running or blocked at its send: either it was
\* never started or its send on the error channel was received.
C26_GoroutineNotLeftBlocked ==
    service.run = "returned" => service.go \in {"none", "done"}

(***************************************************************************)
(* Properties of the Kubernetes watcher.                                   *)
(***************************************************************************)
\* C27: under any interleaving of watch and unwatch calls, every kind has at
\* most one event handler registered with its informer, the state map holds
\* an entry for a kind exactly while the handler added for it is registered
\* and not removed, and it holds no entry for the excluded kinds
\* events.k8s.io/Event, coordination.k8s.io/Lease, ucp.dev/QueueMessage and
\* ucp.dev/Resource.
C27_OneRegistrationPerKind ==
    /\ DOMAIN watcher.state \subseteq GroupVersionKinds
    /\ \A gvk \in GroupVersionKinds :
           /\ Cardinality(watcher.handlers[gvk]) <= 1
           /\ gvk \in DOMAIN watcher.state <=> watcher.handlers[gvk] # {}
           /\ gvk \in DOMAIN watcher.state => watcher.handlers[gvk] = {watcher.state[gvk]}
    /\ \A gvk \in DOMAIN watcher.state :
           ~ \/ (gvk.Group = "events.k8s.io" /\ gvk.Kind = "Event")
             \/ (gvk.Group = "coordination.k8s.io" /\ gvk.Kind = "Lease")
             \/ (gvk.Group = "ucp.dev" /\ gvk.Kind = "QueueMessage")
             \/ (gvk.Group = "ucp.dev" /\ gvk.Kind = "Resource")

\* C27 witness: the CRD kind radapp.io Recipe was watched, unwatched and
\* watched again (its entry holds a later registration) while another kind
\* is watched, and the last call was a watch of the excluded kind ucp.dev
\* Resource.
C27_Witness ==
    /\ watcher.last.op = "watch"
    /\ watcher.last.gvk = GVK("ucp.dev", "v1alpha1", "Resource")
    /\ GVK("radapp.io", "v1alpha3", "Recipe") \in DOMAIN watcher.state
    /\ watcher.state[GVK("radapp.io", "v1alpha3", "Recipe")] > 1
    /\ Cardinality(DOMAIN watcher.state) > 1

\* The read that the injected storage failure hits was made: the plane is
\* always read, the resource group when the plane exists and the id has a
\* resource-group segment, the Location record when plane and group passed.
FailedRead ==
    /\ response.op = "ValidateDownstream"
    /\ \/ response.fault = "plane"
       \/ /\ response.fault = "group"
          /\ ReqPlane # Absent
          /\ FindScopeResourceGroups(response.id) # ""
       \/ /\ response.fault = "location"
          /\ ReqPlane # Absent
          /\ ReqGroupOK

\* C28: a storage failure other than not-found while reading the plane, the
\* resource group or the Location record makes ValidateDownstream return an
\* error that is neither NotFoundError nor InvalidError, with no URL, the
\* failed read being the last one made; the legacy resourceProviders map is
\* consulted only when the Location read reported not-found.
C28_StorageFailureIsPlainError ==
    /\ FailedRead =>
           /\ response.result.err = "error"
           /\ response.result.url = NilURL
           /\ response.result.reads[Len(response.result.reads)] = response.fault
           /\ \A i \in 1..Len(response.result.reads) : response.result.reads[i] # "legacy"
    /\ (/\ response.op = "ValidateDownstream"
        /\ \E i \in 1..Len(response.result.reads) : response.result.reads[i] = "legacy")
           => /\ ~FailedRead
              /\ ReqLocation = Absent
              /\ response.result.reads[Len(response.result.reads) - 1] = "location"

\* C28 witness: the read of the Location record failed for an id whose plane
\* configures a legacy provider for the namespace and whose Location record
\* does not exist, and the validation ended with a plain error without
\* consulting the legacy map.
C28_Witness ==
    /\ FailedRead
    /\ response.fault = "location"
    /\ ReqLocation = Absent
    /\ LookupResourceProvider(ReqPlane, ProviderNamespace(response.id)) # ""
    /\ response.result.err = "error"
    /\ response.result.msg = "failed to find location"

====
